---- MODULE Spec2Model ----
(***************************************************************************)
(* Model of the secure firmware updater (src/src/main.py and the modules   *)
(* it drives): the orchestrator loop with its two event queues, the two    *)
(* udev producers, the verification pipeline, the retrying flasher, the    *)
(* device validator and the shutdown/cleanup path.                         *)
(*                                                                         *)
(* Conventions.  A Python value that may be None is a sequence: <<>> is    *)
(* None and <<v>> is v.  A filesystem path is the sequence of its          *)
(* components, so that os.path.join is concatenation and os.path.basename  *)
(* is the last component.  A message built with an f-string is the tuple   *)
(* of its fixed text and its interpolated values.                          *)
(***************************************************************************)
EXTENDS Naturals, Sequences, FiniteSets

VARIABLES
    config,               \* Config().config, read once at startup
    security_enabled,     \* USBCertificateVerifier.security_enabled
    shutdown_requested,   \* main.py global
    current_usb_storage,  \* main.py global (None or a USBStorage)
    current_firmware_path,\* main.py global (None or a path)
    storage_event_queue,  \* Queue(maxsize=32) of storage events
    device_event_queue,   \* Queue(maxsize=32) of device events
    pc,                   \* position of the main thread
    event,                \* the event the main thread dequeued (None or one)
    result,               \* VerificationResult / FlashResult of the handler in progress
    flasher,              \* FirmwareFlasher.firmware_path
    flash_locals,         \* attempt and last_error of the flash() call in progress
    tool,                 \* a stub of the flashing tool: how its successive runs end
    verifier,             \* the verify_usb_device call in progress: volume, steps run
    unmounter,            \* unmount_device calls on one mount point: its directory, the calls
    caught,               \* the loop's except clause has caught an exception of a handler
    scanner,              \* _scan_existing_devices: the partitions attached at startup, how many are scanned
    led,                  \* the LEDController: its LEDs, stop flag, blink threads, the show_* call in progress
    mounter,              \* the _mount_device call in progress: the partition, the commands run so far
    lamp,                 \* what the LEDs show
    observers,            \* which MonitorObserver threads are running
    plugged,              \* USB partitions physically attached
    mounts,               \* the OS mount table: mount points in use
    udev,                 \* number of udev notifications delivered so far
    seen,                 \* observations of the iteration in progress
    lastStorage,          \* kind and outcome of the storage event handled last
    signalled,            \* the first signal: was a handler in progress; events dequeued since
    cleanupLog,           \* the cleanup calls made so far, in order
    unmount_due,          \* mount points of the handled mounted events, not passed to unmount_device since
    ahead                 \* per waiting device event: the storage events put before it that still wait

vars == <<config, security_enabled, shutdown_requested, current_usb_storage,
          current_firmware_path, storage_event_queue, device_event_queue, pc,
          event, result, flasher, flash_locals, tool, verifier, unmounter, caught, scanner, led,
          mounter, lamp, observers, plugged,
          mounts, udev, seen, lastStorage, signalled, cleanupLog, unmount_due, ahead>>

-----------------------------------------------------------------------------
(* Bounds of the model *)

\* udev 'add'/'remove' notifications delivered to the two monitors over a run
MaxEvents == 3
\* largest configured firmware.retry_count
MaxRetry == 2
\* calls of unmount_device in a row on one mount point
MaxCalls == 3
\* show_* calls made on the LED controller over a run
MaxShows == 3

-----------------------------------------------------------------------------
(* Python helpers *)

None == <<>>
Some(v) == <<v>>
Truthy(v) == v # None
Last(s) == s[Len(s)]

\* os.path.join(a, b) for a relative b
os_path_join(a, b) == a \o <<b>>
\* os.path.basename
os_path_basename(p) == Last(p)

\* str.lower() on the hexadecimal identifier strings, character by character
LowerChar(c) ==
    CASE c = "A" -> "a" [] c = "B" -> "b" [] c = "C" -> "c"
      [] c = "D" -> "d" [] c = "E" -> "e" [] c = "F" -> "f"
      [] OTHER -> c
lower(s) == [i \in 1..Len(s) |-> LowerChar(s[i])]

\* str.strip() on a text given as its sequence of tokens
IsSpace(c) == c \in {" ", "\n", "\t"}
RECURSIVE lstrip(_)
lstrip(s) == IF s # <<>> /\ IsSpace(Head(s)) THEN lstrip(Tail(s)) ELSE s
RECURSIVE rstrip(_)
rstrip(s) == IF s # <<>> /\ IsSpace(Last(s)) THEN rstrip(SubSeq(s, 1, Len(s) - 1)) ELSE s
\* str.strip() leaving the text as it is
strip_nothing(s) == s

strip(s) == rstrip(lstrip(s))

-----------------------------------------------------------------------------
(* Configuration (config.yaml, read by Config) *)

\* Queue(maxsize=32)
maxsize == 32

mount_base == <<"/media", "pi">>
device_info_path == "device_info.json"
usb_path == "firmware.bin"
certificate_path == "device_info.sig"
checksum_path == "firmware.sha256"
\* firmware.path, the flasher's path before any volume is verified
default_firmware_path == <<"firmware", "firmware.bin">>
firmware_timeout == 120
tool_command0 == "esptool.py"
\* target_device.vid / target_device.pid as written in the configuration
target_device_vid == <<"3", "0", "3", "A">>
target_device_pid == <<"1", "0", "0", "1">>

Configs ==
    [require_certificate : BOOLEAN,
     verify_checksum : BOOLEAN,
     retry_count : 1..MaxRetry]

\* The configuration the orchestrator is run with: checksum verification on,
\* certificate verification off, the largest retry count
OrchestratorConfigs ==
    { c \in Configs : c.verify_checksum /\ ~c.require_certificate
                       /\ c.retry_count = MaxRetry }

-----------------------------------------------------------------------------
(* Verification pipeline (usb_certificate_verifier.py) *)

\* The firmware images of the model and their SHA-256 hex digests
Images == {"image1", "image2"}
\* a digest that does not depend on the image
_calculate_sha256_constant(image) == <<"3f", "a9">>

_calculate_sha256(image) ==
    IF image = "image1" THEN <<"3f", "a9">> ELSE <<"7c", "0e">>

\* What a mounted volume holds: each file is absent or has a content.
\*   device_info : "absent" | "malformed" | "valid"
\*   firmware    : "absent" | an image
\*   certificate : "absent" | "good" | "bad"  (what openssl dgst -verify finds)
\*   checksum    : "absent" | the text of the checksum file
\*   openssl     : "runs" | "timeout" | "oserror"  (how the subprocess ends)
ChecksumTexts ==
    { <<"3f", "a9">>, <<"3f", "a9", "\n">>, <<"3F", "A9">>, <<"7c", "0e", "\n">> }
VolumeContents ==
    [device_info : {"absent", "malformed", "valid"},
     firmware : {"absent"} \cup Images,
     certificate : {"absent", "good", "bad"},
     checksum : {<<"absent">>} \cup ChecksumTexts,
     openssl : {"runs", "timeout"}]

\* The volumes plugged into the orchestrator: no signature file (its
\* configuration requires none), one image, a checksum file that is absent,
\* right or wrong
OrchestratorVolumes ==
    { fs \in VolumeContents :
        /\ fs.certificate = "absent" /\ fs.openssl = "runs"
        /\ fs.firmware # "image2"
        /\ fs.checksum \in { <<"absent">>, <<"3f", "a9", "\n">>, <<"7c", "0e", "\n">> } }

\* os.path.exists(os.path.join(mount_point, file_path))
os_path_exists(fs, file_path) ==
    CASE file_path = device_info_path -> fs.device_info # "absent"
      [] file_path = usb_path -> fs.firmware # "absent"
      [] file_path = certificate_path -> fs.certificate # "absent"
      [] file_path = checksum_path -> fs.checksum # <<"absent">>
      [] OTHER -> FALSE

VerificationResult(success, message, device_info, firmware_path, mount_point) ==
    [success |-> success, message |-> message, device_info |-> device_info,
     firmware_path |-> firmware_path, mount_point |-> mount_point]

\* a structure check that asks for all four files whatever the flags
_check_file_structure_all_files(cfg, fs) ==
    LET required_files ==
            <<device_info_path, usb_path, certificate_path, checksum_path>>
        missing(f) == ~os_path_exists(fs, f)
        missing_files == SelectSeq(required_files, missing)
    IN  IF missing_files # <<>>
        THEN VerificationResult(FALSE, <<"Missing required files", missing_files>>,
                                None, None, None)
        ELSE VerificationResult(TRUE, <<"File structure OK">>, None, None, None)

_check_file_structure(cfg, fs) ==
    LET required_files ==
            <<device_info_path, usb_path>>
            \o (IF cfg.require_certificate THEN <<certificate_path>> ELSE <<>>)
            \o (IF cfg.verify_checksum THEN <<checksum_path>> ELSE <<>>)
        missing(f) == ~os_path_exists(fs, f)
        missing_files == SelectSeq(required_files, missing)
    IN  IF missing_files # <<>>
        THEN VerificationResult(FALSE, <<"Missing required files", missing_files>>,
                                None, None, None)
        ELSE VerificationResult(TRUE, <<"File structure OK">>, None, None, None)

\* None when json.load or a field lookup raises
_load_device_info(fs) ==
    IF fs.device_info = "valid" THEN Some("USBDeviceInfo") ELSE None

_verify_certificate(fs) ==
    IF fs.openssl = "timeout"
    THEN VerificationResult(FALSE, <<"Certificate verification timeout">>, None, None, None)
    ELSE IF fs.certificate = "good"
    THEN VerificationResult(TRUE, <<"Certificate verified">>, None, None, None)
    ELSE VerificationResult(FALSE, <<"Invalid certificate signature">>, None, None, None)

_verify_firmware_checksum(fs) ==
    IF fs.checksum = <<"absent">> \/ fs.firmware = "absent"
    THEN VerificationResult(FALSE, <<"Checksum verification error">>, None, None, None)
    ELSE LET expected_checksum == strip(fs.checksum)
             actual_checksum == _calculate_sha256(fs.firmware)
         IN  IF actual_checksum = expected_checksum
             THEN VerificationResult(TRUE, <<"Firmware checksum verified">>, None, None, None)
             ELSE VerificationResult(FALSE,
                    <<"Firmware checksum mismatch - file may be corrupted">>,
                    None, None, None)

verify_usb_device(cfg, sec_enabled, mount_point, fs) ==
    LET step1 == _check_file_structure(cfg, fs)
        device_info == _load_device_info(fs)
        step3 == _verify_certificate(fs)
        step4 == _verify_firmware_checksum(fs)
    IN  IF ~step1.success THEN step1
        ELSE IF ~Truthy(device_info)
        THEN VerificationResult(FALSE, <<"Failed to load device_info.json">>,
                                None, None, None)
        ELSE IF sec_enabled /\ cfg.require_certificate /\ ~step3.success THEN step3
        ELSE IF cfg.verify_checksum /\ ~step4.success THEN step4
        ELSE VerificationResult(TRUE, <<"USB device verified successfully">>,
                                device_info,
                                os_path_join(mount_point, usb_path),
                                mount_point)

-----------------------------------------------------------------------------
(* Retry-flash engine (firmware_flasher.py) *)

FlashResult(success, message, attempt) ==
    [success |-> success, message |-> message, attempt |-> attempt]

\* How one subprocess.run of the flashing tool ends. "raises" is any exception
\* other than TimeoutExpired and FileNotFoundError (it leaves _execute_flash).
ToolOutcomes ==
    { [kind |-> "exit", code |-> 0], [kind |-> "exit", code |-> 1],
      [kind |-> "timeout", code |-> 0], [kind |-> "notfound", code |-> 0],
      [kind |-> "raises", code |-> 0] }

\* an _execute_flash that takes any exit of the tool for a success
_execute_flash_any_exit(outcome, attempt) ==
    CASE outcome.kind = "exit" ->
            FlashResult(TRUE, <<"Flash completed successfully">>, attempt)
      [] outcome.kind = "timeout" ->
            FlashResult(FALSE, <<"Flash timeout after", firmware_timeout>>, attempt)
      [] OTHER ->
            FlashResult(FALSE, <<"Flash tool not found", tool_command0>>, attempt)

\* The FlashResult _execute_flash returns (outcome.kind # "raises")
_execute_flash(outcome, attempt) ==
    CASE outcome.kind = "exit" /\ outcome.code = 0 ->
            FlashResult(TRUE, <<"Flash completed successfully">>, attempt)
      [] outcome.kind = "exit" /\ outcome.code # 0 ->
            FlashResult(FALSE, <<"Tool returned error code", outcome.code>>, attempt)
      [] outcome.kind = "timeout" ->
            FlashResult(FALSE, <<"Flash timeout after", firmware_timeout>>, attempt)
      [] OTHER ->
            FlashResult(FALSE, <<"Flash tool not found", tool_command0>>, attempt)

\* a retry loop that gives up one attempt early
flash_has_next_attempt_one_less(attempt, retry_count) == attempt + 1 < retry_count

\* for attempt in range(1, self.retry_count + 1): is there a next iteration?
flash_has_next_attempt(attempt, retry_count) == attempt < retry_count

\* a retry loop that waits after every failed attempt, the last included
flash_waits_before_retry_always(attempt, retry_count) == TRUE

\* if attempt < self.retry_count: time.sleep(self.retry_delay)
flash_waits_before_retry(attempt, retry_count) == attempt < retry_count

\* a retry loop that keeps the reason of its first failure
flash_last_error_first(previous, reason) ==
    IF previous = None THEN Some(reason) ELSE previous

\* last_error = result.message / last_error = str(e)
flash_last_error(previous, reason) == Some(reason)

\* One iteration of flash()'s retry loop on the locals fl, the tool ending as
\* outcome: the locals after it, whether it waits retry_delay, and the
\* FlashResult when flash() returns in this iteration (None when it loops).
flash_iteration(fl, retry_count, outcome) ==
    LET raised == outcome.kind = "raises"
        res == _execute_flash(outcome, fl.attempt)
        last_error == flash_last_error(fl.last_error,
                                       IF raised THEN <<"str(e)">> ELSE res.message)
        sleeps == flash_waits_before_retry(fl.attempt, retry_count)
    IN  IF ~raised /\ res.success
        THEN [fl |-> fl, sleeps |-> FALSE, returns |-> Some(res)]
        ELSE IF flash_has_next_attempt(fl.attempt, retry_count)
        THEN [fl |-> [fl EXCEPT !.last_error = last_error,
                                 !.attempt = fl.attempt + 1],
              sleeps |-> sleeps,
              returns |-> None]
        ELSE [fl |-> [fl EXCEPT !.last_error = last_error],
              sleeps |-> sleeps,
              returns |-> Some(FlashResult(FALSE,
                            <<"Flash failed after", retry_count,
                              "attempts. Last error:", last_error[1]>>,
                            retry_count))]

\* The locals of flash() at its first iteration, and outside flash()
FlashStart == [attempt |-> 1, last_error |-> None]
NotFlashing == [attempt |-> 0, last_error |-> None]

-----------------------------------------------------------------------------
(* Device validator (device_validator.py) and USBDevice (usb_monitor.py) *)

USBDevice(sys_name, device_node, vid, pid) ==
    [sys_name |-> sys_name, device_node |-> device_node, vid |-> vid, pid |-> pid]

\* DeviceValidator.__init__
target_vid == lower(target_device_vid)
target_pid == lower(target_device_pid)

\* a validator that compares the device's ids as they are
is_valid_device_exact(device) ==
    device.vid = target_vid /\ device.pid = target_pid

is_valid_device(device) ==
    LET vid_match == lower(device.vid) = target_vid
        pid_match == lower(device.pid) = target_pid
    IN  vid_match /\ pid_match

\* port.startswith('/dev/tty') on a path given by its components
TtyNames == {"ttyUSB0", "ttyUSB1", "ttyUSB2", "ttyACM0", "ttyACM1", "ttyS0"}
startswith_dev_tty(port) ==
    Len(port) >= 2 /\ port[1] = "/dev" /\ port[2] \in TtyNames

\* for port_name in ['ttyUSB0', 'ttyUSB1', 'ttyUSB2', 'ttyACM0', 'ttyACM1']
common_serial_ports == <<"ttyUSB0", "ttyUSB1", "ttyUSB2", "ttyACM0", "ttyACM1">>

\* What /dev and /sys hold for each conventional name when the probe runs:
\* "absent", "node_only" (no /sys/class/tty/<name>/device) or "with_sysfs"
DevFs == [ {"ttyUSB0", "ttyUSB1"} -> {"absent", "node_only", "with_sysfs"} ]
devfs_state(devfs, port_name) ==
    IF port_name \in DOMAIN devfs THEN devfs[port_name] ELSE "absent"

\* What context.list_devices(subsystem='tty') yields: for each tty its usb
\* parent's ids (None without a usb parent) and its device node.
TtyEntry(parent, node) == [parent |-> parent, device_node |-> node]
TtyListings ==
    { <<>>,
      <<TtyEntry(None, <<"/dev", "ttyS0">>)>>,
      <<TtyEntry(Some([vid |-> <<"1", "0", "c", "4">>, pid |-> <<"e", "a", "6", "0">>]),
                 <<"/dev", "ttyUSB0">>),
        TtyEntry(Some([vid |-> <<"3", "0", "3", "a">>, pid |-> <<"1", "0", "0", "1">>]),
                 <<"/dev", "ttyUSB1">>)>> }

\* Method 2: the first conventional port that exists and has a sysfs device
RECURSIVE probe_common_ports(_, _)
probe_common_ports(devfs, names) ==
    IF names = <<>> THEN None
    ELSE IF devfs_state(devfs, Head(names)) = "with_sysfs"
    THEN <<"/dev", Head(names)>>
    ELSE probe_common_ports(devfs, Tail(names))

\* Method 3: the first tty whose usb parent has exactly the device's ids
RECURSIVE find_tty_by_parent(_, _)
find_tty_by_parent(device, ttys) ==
    IF ttys = <<>> THEN None
    ELSE LET tty == Head(ttys)
         IN  IF Truthy(tty.parent)
                /\ tty.parent[1].vid = device.vid /\ tty.parent[1].pid = device.pid
                /\ Truthy(tty.device_node)
             THEN tty.device_node
             ELSE find_tty_by_parent(device, Tail(ttys))

get_device_port(device, devfs, ttys) ==
    LET port == device.device_node
        probed == probe_common_ports(devfs, common_serial_ports)
    IN  IF Truthy(port) /\ startswith_dev_tty(port) THEN port
        ELSE IF Truthy(probed) THEN probed
        ELSE find_tty_by_parent(device, ttys)

-----------------------------------------------------------------------------
(* Storage lifecycle manager (usb_storage_monitor.py) *)

USBStorage(device_node, mount_point) ==
    [device_node |-> device_node, mount_point |-> mount_point]

\* The USB partitions of the model, by device node
Partitions == { <<"/dev", "sda1">>, <<"/dev", "sdb1">> }

\* /proc/mounts: the mount point of device_node, or None
_get_existing_mount(mtab, device_node) == mtab[device_node]

\* How the (up to three) 'sudo mount' calls end, in order
MountRuns == [1..3 -> {"ok", "fail", "timeout"}]

\* a retry loop that waits after every failed mount, the third included
mount_iteration_always_waits(attempt, run) ==
    CASE run = "ok" -> [ends |-> TRUE, mounted |-> TRUE, sleeps |-> FALSE]
      [] run = "timeout" -> [ends |-> TRUE, mounted |-> FALSE, sleeps |-> FALSE]
      [] OTHER -> [ends |-> ~(attempt < 2), mounted |-> FALSE, sleeps |-> TRUE]

\* One iteration of for attempt in range(3), the mount call ending as run:
\* does _mount_device return in it, with a mount, and does it sleep(1)
mount_iteration(attempt, run) ==
    CASE run = "ok" -> [ends |-> TRUE, mounted |-> TRUE, sleeps |-> FALSE]
      [] run = "timeout" -> [ends |-> TRUE, mounted |-> FALSE, sleeps |-> FALSE]
      [] OTHER -> [ends |-> ~(attempt < 2), mounted |-> FALSE, sleeps |-> attempt < 2]

\* for attempt in range(3): the 0-based attempt that mounts, or None
RECURSIVE mount_with_retry(_, _)
mount_with_retry(runs, attempt) ==
    LET it == mount_iteration(attempt, runs[attempt + 1])
    IN  IF ~it.ends THEN mount_with_retry(runs, attempt + 1)
        ELSE IF it.mounted THEN Some(attempt)
        ELSE None

\* The USBStorage _mount_device returns (or None) and the mount table after it
_mount_device(mtab, device_node, runs) ==
    LET existing_mount == _get_existing_mount(mtab, device_node)
        mount_name == os_path_basename(device_node)
        mount_point == os_path_join(mount_base, mount_name)
    IN  IF Truthy(existing_mount)
        THEN [storage |-> Some(USBStorage(device_node, existing_mount)), mounts |-> mtab]
        ELSE IF Truthy(mount_with_retry(runs, 0))
        THEN [storage |-> Some(USBStorage(device_node, mount_point)),
              mounts |-> [mtab EXCEPT ![device_node] = mount_point]]
        ELSE [storage |-> None, mounts |-> mtab]

\* The mount table after unmount_device(mount_point): umount -l (or -f) drops
\* every entry mounted there; when the subprocess times out nothing changes.
unmount_device(mtab, mount_point, umount) ==
    IF umount = "timeout" THEN mtab
    ELSE [d \in DOMAIN mtab |-> IF mtab[d] = mount_point THEN None ELSE mtab[d]]

\* How the umount subprocesses of unmount_device may end: umount of a mount
\* point with nothing mounted on it exits at once with an error
umount_runs(mtab, mount_point) ==
    IF \E d \in DOMAIN mtab : mtab[d] = mount_point
    THEN {"done", "timeout"}
    ELSE {"not_mounted"}

\* an unmount that reports failure when nothing was mounted
unmount_device_returns_strict(umount) == umount = "done"

\* What unmount_device returns: False from the except clause, else True
unmount_device_returns(umount) == umount # "timeout"

\* os.rmdir(mount_point) succeeds on an existing directory nothing is mounted
\* on; its OSError is caught
rmdir_succeeds(mtab, mount_point, dir_exists) ==
    dir_exists /\ ~\E d \in DOMAIN mtab : mtab[d] = mount_point

StorageEvent(type, data) == [type |-> type, data |-> data]

\* Queue.put blocks while the queue holds maxsize items
queue_full(q) == Len(q) >= maxsize

-----------------------------------------------------------------------------
(* Device hotplug watcher (usb_monitor.py) *)

\* The udev 'usb' devices of the model: ids as udev reports them, and the
\* device's own node (None for an interface)
UdevDevices ==
    { [sys_name |-> "1-1", vid |-> <<"3", "0", "3", "a">>, pid |-> <<"1", "0", "0", "1">>,
       device_node |-> <<"/dev", "bus", "usb", "001", "005">>],
      [sys_name |-> "1-2", vid |-> <<"3", "0", "3", "a">>, pid |-> <<"e", "a", "6", "0">>,
       device_node |-> <<"/dev", "bus", "usb", "001", "006">>],
      [sys_name |-> "usb1", vid |-> <<>>, pid |-> <<>>,
       device_node |-> None] }

\* What _find_serial_port returns for a device: on 'add' its tty if it is
\* there already, on 'remove' nothing (the tty is gone)
SerialPorts(action) ==
    IF action = "add" THEN { None, <<"/dev", "ttyUSB0">> } ELSE { None }

\* The USBDevice _handle_event builds (device.device_node or '' is None here;
\* both are falsy for get_device_port)
usb_device_of(dev, serial_port) ==
    USBDevice(dev.sys_name,
              IF Truthy(serial_port) THEN serial_port ELSE dev.device_node,
              dev.vid, dev.pid)

DeviceEvent(type, device) == [type |-> type, device |-> device]

-----------------------------------------------------------------------------
(* Orchestrator (main.py): the decisions of the loop and of its handlers *)

Session(storage, path) == [storage |-> storage, path |-> path]

\* a loop that never looks at the flag
loop_continues_forever(shutdown) == TRUE

\* while not shutdown_requested
loop_continues(shutdown) == ~shutdown

\* the loop without its continue after a storage event
after_storage_event_no_continue == "poll_device"

\* Where the main thread goes once a storage event is handled: 'continue'
after_storage_event == "loop"

\* handle_storage_mounted recording the firmware path but not the volume
storage_mounted_session_path_only(res, storage, before) ==
    IF res.success
    THEN Session(before.storage, res.firmware_path)
    ELSE before

\* handle_storage_mounted: the session after the verification returned res
storage_mounted_session(res, storage, before) ==
    IF res.success
    THEN Session(Some(storage), res.firmware_path)
    ELSE before

\* handle_storage_removed leaving the session as it is
storage_removed_session_kept(before) == before

\* handle_storage_removed forgetting current_firmware_path
storage_removed_session_path_kept(before) ==
    IF Truthy(before.storage) THEN Session(None, before.path) ELSE before

\* handle_storage_removed: the session after it
storage_removed_session(before) ==
    IF Truthy(before.storage) THEN Session(None, None) ELSE before

\* handle_device_connected without its firmware check
device_connected_branch_no_firmware_check(device, firmware_path, port) ==
    IF ~is_valid_device(device) THEN "unknown_device"
    ELSE IF ~Truthy(port) THEN "no_port"
    ELSE "flash"

\* handle_device_connected taking a missing firmware for an unknown device
device_connected_branch_silent(device, firmware_path, port) ==
    IF ~is_valid_device(device) \/ ~Truthy(firmware_path) THEN "unknown_device"
    ELSE IF ~Truthy(port) THEN "no_port"
    ELSE "flash"

\* handle_device_connected: which branch it takes
device_connected_branch(device, firmware_path, port) ==
    IF ~is_valid_device(device) THEN "unknown_device"
    ELSE IF ~Truthy(firmware_path) THEN "no_firmware"
    ELSE IF ~Truthy(port) THEN "no_port"
    ELSE "flash"

\* a loop without its own except clause: the exception ends the loop
after_exception_fatal == "finally"

\* except Exception as e: print, traceback; the while loop goes on
after_exception == "loop"

\* if current_usb_storage: storage_monitor.unmount_device(current_usb_storage.mount_point):
\* the mount points still due for an unmount after it
unmount_calls(due, storage) ==
    IF Truthy(storage) THEN due \ {storage[1].mount_point} ELSE due

\* The cleanup calls of main's finally block, in order
cleanup_calls(storage) ==
    <<"device_monitor.stop_monitoring", "storage_monitor.stop_monitoring">>
    \o (IF Truthy(storage) THEN <<"storage_monitor.unmount_device">> ELSE <<>>)
    \o <<"led.cleanup">>

\* How the runs of the flashing tool may end at the given attempt: as the stub
\* says, or in any way when there is no stub
tool_runs(stub, attempt) ==
    IF stub = None THEN ToolOutcomes ELSE {stub[attempt]}

-----------------------------------------------------------------------------
(* State *)

Nothing ==
    [storage_poll |-> "unpolled", device_poll |-> "unpolled", lamps |-> <<>>,
     tool_calls |-> 0, delays |-> 0, fs |-> None, flash_call |-> None, before |-> None]

session == Session(current_usb_storage, current_firmware_path)

\* The main thread is between two handlers
Polling == pc \in {"loop", "poll_storage", "poll_device"}

cfgVars == <<config, security_enabled, tool, verifier, unmounter, caught, scanner, led,
             mounter, unmount_due, ahead>>
\* cfgVars but for the mount points due for an unmount
fixedVars == <<config, security_enabled, tool, verifier, unmounter, caught, scanner, led,
               mounter, ahead>>
sessionVars == <<current_usb_storage, current_firmware_path>>
queueVars == <<storage_event_queue, device_event_queue>>
busVars == <<plugged, udev>>
flashVars == <<flasher, flash_locals>>

Init ==
    /\ config \in OrchestratorConfigs
    /\ security_enabled = TRUE
    /\ tool = None
    /\ verifier = None
    /\ unmounter = None
    /\ caught = FALSE
    /\ scanner = None
    /\ led = None
    /\ mounter = None
    /\ shutdown_requested = FALSE
    /\ current_usb_storage = None
    /\ current_firmware_path = None
    /\ storage_event_queue = <<>>
    /\ device_event_queue = <<>>
    /\ pc = "loop"
    /\ event = None
    /\ result = None
    /\ flasher = [firmware_path |-> default_firmware_path]
    /\ flash_locals = NotFlashing
    /\ lamp = "idle"
    /\ observers = [device |-> TRUE, storage |-> TRUE]
    /\ plugged = {}
    /\ mounts = [d \in Partitions |-> None]
    /\ udev = 0
    /\ seen = Nothing
    /\ lastStorage = "none"
    /\ signalled = [busy |-> FALSE, dequeued |-> 0]
    /\ cleanupLog = <<>>
    /\ unmount_due = {}
    /\ ahead = None

\* The order of arrival across the two queues, recorded when `ahead` is set:
\* a device event is put behind the storage events waiting at that moment
ahead_device_put(a, storage_q) ==
    IF a = None THEN None ELSE Some(Append(a[1], Len(storage_q)))

\* storage_event_queue.get() takes the oldest storage event
ahead_storage_get(a) ==
    IF a = None THEN None
    ELSE Some([i \in 1..Len(a[1]) |-> IF a[1][i] > 0 THEN a[1][i] - 1 ELSE 0])

\* device_event_queue.get() takes the oldest device event
ahead_device_get(a) ==
    IF a = None THEN None ELSE Some(Tail(a[1]))

\* An event dequeued once the signal has arrived is counted
count_dequeue ==
    signalled' = IF shutdown_requested
                 THEN [signalled EXCEPT !.dequeued = @ + 1]
                 ELSE signalled

-----------------------------------------------------------------------------
(* The main thread *)

main_loop_enter ==
    /\ pc = "loop"
    /\ loop_continues(shutdown_requested)
    /\ pc' = "poll_storage"
    /\ event' = None
    /\ result' = None
    /\ seen' = Nothing
    /\ UNCHANGED <<cfgVars, sessionVars, queueVars, busVars, flashVars, mounts,
                   observers, shutdown_requested, lamp, lastStorage, signalled,
                   cleanupLog>>

main_loop_exit ==
    /\ pc = "loop"
    /\ ~loop_continues(shutdown_requested)
    /\ pc' = "finally"
    /\ UNCHANGED <<cfgVars, sessionVars, queueVars, busVars, flashVars, mounts,
                   observers, shutdown_requested, event, result, seen, lamp,
                   lastStorage, signalled, cleanupLog>>

\* storage_event_queue.get(timeout=0.1) returns an event
main_storage_get ==
    /\ pc = "poll_storage"
    /\ storage_event_queue # <<>>
    /\ event' = Some(Head(storage_event_queue))
    /\ storage_event_queue' = Tail(storage_event_queue)
    /\ pc' = IF Head(storage_event_queue).type = "usb_storage_mounted"
             THEN "storage_mounted" ELSE "storage_removed"
    /\ seen' = [seen EXCEPT !.storage_poll = "event"]
    /\ count_dequeue
    /\ ahead' = ahead_storage_get(ahead)
    /\ UNCHANGED <<config, security_enabled, tool, verifier, unmounter, caught, scanner,
                   led, mounter, unmount_due, sessionVars, device_event_queue, busVars, flashVars,
                   mounts, observers, shutdown_requested, result, lamp, lastStorage,
                   cleanupLog>>

\* a loop that starts over when the storage queue is empty
main_storage_empty_continues ==
    /\ pc = "poll_storage"
    /\ storage_event_queue = <<>>
    /\ pc' = "loop"
    /\ seen' = [seen EXCEPT !.storage_poll = "empty"]
    /\ UNCHANGED <<cfgVars, sessionVars, queueVars, busVars, flashVars, mounts,
                   observers, shutdown_requested, event, result, lamp, lastStorage,
                   signalled, cleanupLog>>

\* storage_event_queue.get(timeout=0.1) raises Empty
main_storage_empty ==
    /\ pc = "poll_storage"
    /\ storage_event_queue = <<>>
    /\ pc' = "poll_device"
    /\ seen' = [seen EXCEPT !.storage_poll = "empty"]
    /\ UNCHANGED <<cfgVars, sessionVars, queueVars, busVars, flashVars, mounts,
                   observers, shutdown_requested, event, result, lamp, lastStorage,
                   signalled, cleanupLog>>

\* handle_storage_mounted: show_validating, verify_usb_device on what the
\* volume holds, the session update, show_success or show_error, the dwell,
\* show_idle; then task_done and continue
handle_storage_mounted ==
    /\ pc = "storage_mounted"
    /\ \E fs \in OrchestratorVolumes :
         LET storage == event[1].data
             res == verify_usb_device(config, security_enabled, storage.mount_point, fs)
             after == storage_mounted_session(res, storage, session)
         IN  /\ result' = Some(res)
             /\ current_usb_storage' = after.storage
             /\ current_firmware_path' = after.path
             /\ seen' = [seen EXCEPT
                           !.fs = Some(fs),
                           !.before = Some(session),
                           !.lamps = @ \o <<"validating",
                                            IF res.success THEN "success" ELSE "error",
                                            "idle">>]
             /\ lastStorage' = IF res.success THEN "mounted_verified"
                                ELSE "mounted_rejected"
             /\ unmount_due' = unmount_due \cup {storage.mount_point}
    /\ lamp' = "idle"
    /\ pc' = after_storage_event
    /\ UNCHANGED <<fixedVars, queueVars, busVars, flashVars, mounts, observers,
                   shutdown_requested, event, signalled, cleanupLog>>

\* handle_storage_removed: unmount_device if a volume is recorded, the session
\* update, show_idle; then task_done and continue
handle_storage_removed ==
    /\ pc = "storage_removed"
    /\ LET after == storage_removed_session(session)
       IN  /\ current_usb_storage' = after.storage
           /\ current_firmware_path' = after.path
    /\ IF Truthy(current_usb_storage)
       THEN \E umount \in {"done", "timeout"} :
              mounts' = unmount_device(mounts, current_usb_storage[1].mount_point, umount)
       ELSE mounts' = mounts
    /\ unmount_due' = unmount_calls(unmount_due, current_usb_storage)
    /\ lamp' = "idle"
    /\ seen' = [seen EXCEPT !.lamps = @ \o <<"idle">>, !.before = Some(session)]
    /\ lastStorage' = "removed"
    /\ pc' = after_storage_event
    /\ UNCHANGED <<fixedVars, queueVars, busVars, flashVars, observers,
                   shutdown_requested, event, result, signalled, cleanupLog>>

\* device_event_queue.get(timeout=0.1) returns an event
main_device_get ==
    /\ pc = "poll_device"
    /\ device_event_queue # <<>>
    /\ event' = Some(Head(device_event_queue))
    /\ device_event_queue' = Tail(device_event_queue)
    /\ pc' = IF Head(device_event_queue).type = "device_connected"
             THEN "device_connected" ELSE "device_disconnected"
    /\ seen' = [seen EXCEPT !.device_poll = "event"]
    /\ count_dequeue
    /\ ahead' = ahead_device_get(ahead)
    /\ UNCHANGED <<config, security_enabled, tool, verifier, unmounter, caught, scanner,
                   led, mounter, unmount_due, sessionVars, storage_event_queue, busVars, flashVars,
                   mounts, observers, shutdown_requested, result, lamp, lastStorage,
                   cleanupLog>>

\* device_event_queue.get(timeout=0.1) raises Empty
main_device_empty ==
    /\ pc = "poll_device"
    /\ device_event_queue = <<>>
    /\ pc' = "loop"
    /\ seen' = [seen EXCEPT !.device_poll = "empty"]
    /\ UNCHANGED <<cfgVars, sessionVars, queueVars, busVars, flashVars, mounts,
                   observers, shutdown_requested, event, result, lamp, lastStorage,
                   signalled, cleanupLog>>

\* handle_device_connected up to its return or to the call of flasher.flash(port)
handle_device_connected ==
    /\ pc = "device_connected"
    /\ \E devfs \in DevFs, ttys \in TtyListings :
         LET device == event[1].device
             port == get_device_port(device, devfs, ttys)
             branch == device_connected_branch(device, current_firmware_path, port)
         IN  CASE branch = "unknown_device" ->
                    /\ lamp' = "idle"
                    /\ seen' = [seen EXCEPT !.lamps = @ \o <<"validating", "idle">>]
                    /\ pc' = "loop"
                    /\ UNCHANGED flashVars
               [] branch \in {"no_firmware", "no_port"} ->
                    /\ lamp' = "error"
                    /\ seen' = [seen EXCEPT !.lamps = @ \o <<"validating", "error">>]
                    /\ pc' = "device_dwell"
                    /\ UNCHANGED flashVars
               [] OTHER ->
                    /\ lamp' = "updating"
                    /\ flasher' = [firmware_path |-> current_firmware_path]
                    /\ flash_locals' = FlashStart
                    /\ seen' = [seen EXCEPT
                                  !.lamps = @ \o <<"validating", "updating">>,
                                  !.flash_call = Some([port |-> port,
                                                       firmware_path |-> flasher'.firmware_path])]
                    /\ pc' = "flash"
    /\ UNCHANGED <<cfgVars, sessionVars, queueVars, busVars, mounts, observers,
                   shutdown_requested, event, result, lastStorage, signalled,
                   cleanupLog>>

\* One iteration of the retry loop of flasher.flash(port): a run of the tool,
\* then the return of flash() or the retry delay
FirmwareFlasher_flash ==
    /\ pc = "flash"
    /\ \E outcome \in tool_runs(tool, flash_locals.attempt) :
         LET it == flash_iteration(flash_locals, config.retry_count, outcome)
         IN  /\ IF Truthy(it.returns)
                THEN /\ result' = it.returns
                     /\ flash_locals' = NotFlashing
                     /\ pc' = "flash_returned"
                ELSE /\ flash_locals' = it.fl
                     /\ UNCHANGED <<result, pc>>
             /\ seen' = [seen EXCEPT !.tool_calls = @ + 1,
                                      !.delays = IF it.sleeps THEN @ + 1 ELSE @]
    /\ UNCHANGED <<cfgVars, sessionVars, queueVars, busVars, flasher, mounts,
                   observers, shutdown_requested, event, lamp, lastStorage,
                   signalled, cleanupLog>>

\* a handler that shows success whatever flash() returned
handle_device_connected_result_always_success ==
    /\ pc = "flash_returned"
    /\ lamp' = "success"
    /\ seen' = [seen EXCEPT !.lamps = @ \o <<lamp'>>]
    /\ pc' = "device_dwell"
    /\ UNCHANGED <<cfgVars, sessionVars, queueVars, busVars, flashVars, mounts,
                   observers, shutdown_requested, event, result, lastStorage,
                   signalled, cleanupLog>>

\* handle_device_connected after flash() returned: show_success or show_error
handle_device_connected_result ==
    /\ pc = "flash_returned"
    /\ lamp' = IF result[1].success THEN "success" ELSE "error"
    /\ seen' = [seen EXCEPT !.lamps = @ \o <<lamp'>>]
    /\ pc' = "device_dwell"
    /\ UNCHANGED <<cfgVars, sessionVars, queueVars, busVars, flashVars, mounts,
                   observers, shutdown_requested, event, result, lastStorage,
                   signalled, cleanupLog>>

\* a handler that forgets the firmware once it has used it
handle_device_connected_idle_consumes ==
    /\ pc = "device_dwell"
    /\ lamp' = "idle"
    /\ seen' = [seen EXCEPT !.lamps = @ \o <<"idle">>]
    /\ pc' = "loop"
    /\ current_usb_storage' = None
    /\ current_firmware_path' = None
    /\ UNCHANGED <<cfgVars, queueVars, busVars, flashVars, mounts,
                   observers, shutdown_requested, event, result, lastStorage,
                   signalled, cleanupLog>>

\* a handler that returns after the dwell without show_idle
handle_device_connected_idle_no_show ==
    /\ pc = "device_dwell"
    /\ pc' = "loop"
    /\ UNCHANGED <<cfgVars, sessionVars, queueVars, busVars, flashVars, mounts,
                   observers, shutdown_requested, event, result, seen, lamp,
                   lastStorage, signalled, cleanupLog>>

\* the rest of handle_device_connected: the dwell is over, show_idle; task_done
handle_device_connected_idle ==
    /\ pc = "device_dwell"
    /\ lamp' = "idle"
    /\ seen' = [seen EXCEPT !.lamps = @ \o <<"idle">>]
    /\ pc' = "loop"
    /\ UNCHANGED <<cfgVars, sessionVars, queueVars, busVars, flashVars, mounts,
                   observers, shutdown_requested, event, result, lastStorage,
                   signalled, cleanupLog>>

\* a disconnect branch that drops the session
main_device_disconnected_forgets ==
    /\ pc = "device_disconnected"
    /\ pc' = "loop"
    /\ current_usb_storage' = None
    /\ current_firmware_path' = None
    /\ UNCHANGED <<cfgVars, queueVars, busVars, flashVars, mounts,
                   observers, shutdown_requested, event, result, seen, lamp,
                   lastStorage, signalled, cleanupLog>>

\* elif event_type == 'device_disconnected': print; task_done
main_device_disconnected ==
    /\ pc = "device_disconnected"
    /\ pc' = "loop"
    /\ UNCHANGED <<cfgVars, sessionVars, queueVars, busVars, flashVars, mounts,
                   observers, shutdown_requested, event, result, seen, lamp,
                   lastStorage, signalled, cleanupLog>>

\* main's finally block
main_finally ==
    /\ pc = "finally"
    /\ cleanupLog' = cleanup_calls(current_usb_storage)
    /\ observers' = [device |-> FALSE, storage |-> FALSE]
    /\ IF Truthy(current_usb_storage)
       THEN \E umount \in {"done", "timeout"} :
              mounts' = unmount_device(mounts, current_usb_storage[1].mount_point, umount)
       ELSE mounts' = mounts
    /\ unmount_due' = unmount_calls(unmount_due, current_usb_storage)
    /\ lamp' = "closed"
    /\ pc' = "exit"
    /\ UNCHANGED <<fixedVars, sessionVars, queueVars, busVars, flashVars,
                   shutdown_requested, event, result, seen, lastStorage, signalled>>

MainThread ==
    \/ main_loop_enter
    \/ main_loop_exit
    \/ main_storage_get
    \/ main_storage_empty
    \/ handle_storage_mounted
    \/ handle_storage_removed
    \/ main_device_get
    \/ main_device_empty
    \/ handle_device_connected
    \/ FirmwareFlasher_flash
    \/ handle_device_connected_result
    \/ handle_device_connected_idle
    \/ main_device_disconnected
    \/ main_finally

-----------------------------------------------------------------------------
(* The signal and the two observer threads *)

\* SIGINT / SIGTERM, delivered to the main thread between two of its steps
signal_handler ==
    /\ pc # "exit"
    /\ shutdown_requested' = TRUE
    /\ signalled' = IF shutdown_requested THEN signalled
                    ELSE [busy |-> ~Polling, dequeued |-> 0]
    /\ UNCHANGED <<cfgVars, sessionVars, queueVars, busVars, flashVars, mounts,
                   observers, pc, event, result, seen, lamp, lastStorage, cleanupLog>>

\* USBStorageMonitor._handle_event, action 'add' for a USB partition
USBStorageMonitor_handle_add ==
    /\ observers.storage
    /\ udev < MaxEvents
    /\ \E device_node \in Partitions \ plugged, runs \in MountRuns :
         LET m == _mount_device(mounts, device_node, runs)
         IN  /\ plugged' = plugged \cup {device_node}
             /\ mounts' = m.mounts
             /\ IF Truthy(m.storage)
                THEN /\ ~queue_full(storage_event_queue)
                     /\ storage_event_queue' =
                          Append(storage_event_queue,
                                 StorageEvent("usb_storage_mounted", m.storage[1]))
                ELSE UNCHANGED storage_event_queue
    /\ udev' = udev + 1
    /\ UNCHANGED <<cfgVars, sessionVars, device_event_queue, flashVars, observers,
                   shutdown_requested, pc, event, result, seen, lamp, lastStorage,
                   signalled, cleanupLog>>

\* USBStorageMonitor._handle_event, action 'remove' for a USB partition
USBStorageMonitor_handle_remove ==
    /\ observers.storage
    /\ udev < MaxEvents
    /\ ~queue_full(storage_event_queue)
    /\ \E device_node \in plugged :
         /\ plugged' = plugged \ {device_node}
         /\ storage_event_queue' =
              Append(storage_event_queue, StorageEvent("usb_storage_removed", device_node))
    /\ udev' = udev + 1
    /\ UNCHANGED <<cfgVars, sessionVars, device_event_queue, flashVars, mounts,
                   observers, shutdown_requested, pc, event, result, seen, lamp,
                   lastStorage, signalled, cleanupLog>>

\* USBMonitor._handle_event for one udev notification
USBMonitor_handle_event_of(dev, action, serial_port) ==
    /\ observers.device
    /\ udev < MaxEvents
    /\ IF ~Truthy(dev.vid) \/ ~Truthy(dev.pid)
       THEN UNCHANGED <<device_event_queue, ahead>>
       ELSE /\ ~queue_full(device_event_queue)
            /\ device_event_queue' =
                 Append(device_event_queue,
                        DeviceEvent(IF action = "add" THEN "device_connected"
                                    ELSE "device_disconnected",
                                    usb_device_of(dev, serial_port)))
            /\ ahead' = ahead_device_put(ahead, storage_event_queue)
    /\ udev' = udev + 1
    /\ UNCHANGED <<config, security_enabled, tool, verifier, unmounter, caught, scanner,
                   led, mounter, unmount_due, sessionVars, storage_event_queue, flashVars, plugged,
                   mounts, observers, shutdown_requested, pc, event, result, seen,
                   lamp, lastStorage, signalled, cleanupLog>>

\* USBMonitor._handle_event, action 'add' or 'remove' for a usb device
USBMonitor_handle_event ==
    \E dev \in UdevDevices, action \in {"add", "remove"} :
    \E serial_port \in SerialPorts(action) :
        USBMonitor_handle_event_of(dev, action, serial_port)

Next ==
    \/ MainThread
    \/ signal_handler
    \/ USBStorageMonitor_handle_add
    \/ USBStorageMonitor_handle_remove
    \/ USBMonitor_handle_event

Spec == Init /\ [][Next]_vars

\* The main thread keeps running: each of its blocking calls has a timeout
FairSpec == Spec /\ WF_vars(MainThread)

\* The same program, with the order of arrival across the two queues recorded
ArrivalInit ==
    /\ config \in OrchestratorConfigs
    /\ security_enabled = TRUE
    /\ tool = None
    /\ verifier = None
    /\ unmounter = None
    /\ caught = FALSE
    /\ scanner = None
    /\ led = None
    /\ mounter = None
    /\ shutdown_requested = FALSE
    /\ current_usb_storage = None
    /\ current_firmware_path = None
    /\ storage_event_queue = <<>>
    /\ device_event_queue = <<>>
    /\ pc = "loop"
    /\ event = None
    /\ result = None
    /\ flasher = [firmware_path |-> default_firmware_path]
    /\ flash_locals = NotFlashing
    /\ lamp = "idle"
    /\ observers = [device |-> TRUE, storage |-> TRUE]
    /\ plugged = {}
    /\ mounts = [d \in Partitions |-> None]
    /\ udev = 0
    /\ seen = Nothing
    /\ lastStorage = "none"
    /\ signalled = [busy |-> FALSE, dequeued |-> 0]
    /\ cleanupLog = <<>>
    /\ unmount_due = {}
    /\ ahead = Some(<<>>)

ArrivalSpec == ArrivalInit /\ [][Next]_vars

-----------------------------------------------------------------------------
(* The orchestrator when the lamp driver may raise inside a handler *)

\* A call of the LED controller raises in the handler in progress: at
\* show_validating on entry of handle_storage_mounted and handle_device_connected,
\* at show_idle at the end of handle_storage_removed (the session is cleared
\* by then), at show_success / show_error after flash(), at the final show_idle.
\* The except clause of the loop catches it.
main_handler_raises ==
    /\ pc \in {"storage_mounted", "storage_removed", "device_connected",
                "flash_returned", "device_dwell"}
    /\ IF pc = "storage_removed"
       THEN /\ LET after == storage_removed_session(session)
               IN  /\ current_usb_storage' = after.storage
                   /\ current_firmware_path' = after.path
            /\ IF Truthy(current_usb_storage)
               THEN \E umount \in {"done", "timeout"} :
                      mounts' = unmount_device(mounts, current_usb_storage[1].mount_point,
                                               umount)
               ELSE mounts' = mounts
            /\ unmount_due' = unmount_calls(unmount_due, current_usb_storage)
            /\ lastStorage' = "removed"
       ELSE UNCHANGED <<sessionVars, mounts, lastStorage, unmount_due>>
    /\ caught' = TRUE
    /\ pc' = after_exception
    /\ UNCHANGED <<config, security_enabled, tool, verifier, unmounter, scanner, led, mounter,
                   ahead, queueVars, busVars, flashVars, observers, shutdown_requested, event, result,
                   seen, lamp, signalled, cleanupLog>>

RaisingNext == Next \/ main_handler_raises

RaisingSpec == Init /\ [][RaisingNext]_vars

FairRaisingSpec == RaisingSpec /\ WF_vars(MainThread)

-----------------------------------------------------------------------------
(* The two producers while the orchestrator is busy in flash() *)

\* n events left in a queue by earlier hotplug activity
RECURSIVE Repeat(_, _)
Repeat(e, n) == IF n = 0 THEN <<>> ELSE <<e>> \o Repeat(e, n - 1)

\* Queue lengths the producers may find: empty, one slot left, full
Backlogs == {0, maxsize - 1, maxsize}

\* The orchestrator has verified the volume on /dev/sda1, dequeued the connect
\* event of the target and called flash(); since then /dev/sdb1 (which does
\* not mount) and another usb device were plugged and unplugged some times
ProducerInit ==
    LET sda1 == <<"/dev", "sda1">>
        storage == USBStorage(sda1, os_path_join(mount_base, "sda1"))
        path == os_path_join(storage.mount_point, usb_path)
        target == CHOOSE d \in UdevDevices : d.sys_name = "1-1"
        other == CHOOSE d \in UdevDevices : d.sys_name = "1-2"
        port == <<"/dev", "ttyUSB0">>
    IN  /\ storage_event_queue \in
              { Repeat(StorageEvent("usb_storage_removed", <<"/dev", "sdb1">>), n) :
                  n \in Backlogs }
        /\ device_event_queue \in
              { Repeat(DeviceEvent("device_disconnected", usb_device_of(other, None)), n) :
                  n \in Backlogs }
        /\ current_usb_storage = Some(storage)
        /\ current_firmware_path = path
        /\ mounts = [d \in Partitions |-> IF d = sda1 THEN storage.mount_point ELSE None]
        /\ plugged = {sda1}
        /\ event = Some(DeviceEvent("device_connected", usb_device_of(target, port)))
        /\ pc = "flash"
        /\ flasher = [firmware_path |-> path]
        /\ flash_locals = FlashStart
        /\ lamp = "updating"
        /\ seen = [Nothing EXCEPT !.storage_poll = "empty", !.device_poll = "event",
                                   !.lamps = <<"validating", "updating">>,
                                   !.flash_call = Some([port |-> port,
                                                        firmware_path |-> path])]
        /\ lastStorage = "mounted_verified"
        /\ result = None
        /\ config \in OrchestratorConfigs
        /\ security_enabled = TRUE
        /\ tool = None
        /\ verifier = None
        /\ unmounter = None
        /\ caught = FALSE
        /\ scanner = None
        /\ led = None
        /\ mounter = None
        /\ shutdown_requested = FALSE
        /\ observers = [device |-> TRUE, storage |-> TRUE]
        /\ udev = 0
        /\ signalled = [busy |-> FALSE, dequeued |-> 0]
        /\ cleanupLog = <<>>
        /\ unmount_due = {storage.mount_point}
        /\ ahead = None

ProducerNext ==
    \/ USBStorageMonitor_handle_add
    \/ USBStorageMonitor_handle_remove
    \/ USBMonitor_handle_event

ProducerSpec == ProducerInit /\ [][ProducerNext]_vars

-----------------------------------------------------------------------------
(* Startup: the synchronous scan of start_monitoring, then the loop *)

\* The j-th USB partition attached at startup, /dev/sdc<j>
ScanPartition(j) == <<"/dev", <<"sdc", j>>>>

\* Partitions attached at startup, in the order udev lists them: first those
\* mounted already, then those that mount, then those that do not
StartupPartitions ==
    [mounted : {0, 1, maxsize, maxsize + 1}, mounting : {0, 1}, failing : {0, 1}]

scan_total(sc) == sc.mounted + sc.mounting + sc.failing

\* /proc/mounts and the runs of mount for the j-th partition
scan_mtab(sc, j) ==
    [d \in {ScanPartition(j)} |->
        IF j <= sc.mounted THEN os_path_join(mount_base, os_path_basename(d)) ELSE None]
scan_mount_runs(sc, j) ==
    [a \in 1..3 |-> IF j <= sc.mounted + sc.mounting THEN "ok" ELSE "fail"]

\* main has built its components and started the device monitor; it calls
\* storage_monitor.start_monitoring()
StartupInit ==
    /\ scanner \in { Some([attached |-> sc, scanned |-> 0]) : sc \in StartupPartitions }
    /\ led = None
    /\ mounter = None
    /\ pc = "scan"
    /\ observers = [device |-> TRUE, storage |-> FALSE]
    /\ config \in OrchestratorConfigs
    /\ security_enabled = TRUE
    /\ tool = None
    /\ verifier = None
    /\ unmounter = None
    /\ caught = FALSE
    /\ shutdown_requested = FALSE
    /\ current_usb_storage = None
    /\ current_firmware_path = None
    /\ storage_event_queue = <<>>
    /\ device_event_queue = <<>>
    /\ event = None
    /\ result = None
    /\ flasher = [firmware_path |-> default_firmware_path]
    /\ flash_locals = NotFlashing
    /\ lamp = "idle"
    /\ plugged = {}
    /\ mounts = [d \in Partitions |-> None]
    /\ udev = 0
    /\ seen = Nothing
    /\ lastStorage = "none"
    /\ signalled = [busy |-> FALSE, dequeued |-> 0]
    /\ cleanupLog = <<>>
    /\ unmount_due = {}
    /\ ahead = None

\* One iteration of the for loop of _scan_existing_devices on a USB
\* partition: the event of a mounted partition is put on the queue
USBStorageMonitor_scan_existing_device ==
    /\ pc = "scan"
    /\ scanner[1].scanned < scan_total(scanner[1].attached)
    /\ LET j == scanner[1].scanned + 1
           device_node == ScanPartition(j)
           mtab == scan_mtab(scanner[1].attached, j)
           existing_mount == _get_existing_mount(mtab, device_node)
           storage == IF Truthy(existing_mount)
                      THEN Some(USBStorage(device_node, existing_mount))
                      ELSE _mount_device(mtab, device_node,
                                         scan_mount_runs(scanner[1].attached, j)).storage
       IN  /\ IF Truthy(storage)
              THEN /\ ~queue_full(storage_event_queue)
                   /\ storage_event_queue' =
                        Append(storage_event_queue,
                               StorageEvent("usb_storage_mounted", storage[1]))
              ELSE UNCHANGED storage_event_queue
           /\ scanner' = Some([scanner[1] EXCEPT !.scanned = j])
    /\ UNCHANGED <<config, security_enabled, tool, verifier, unmounter, caught, led,
                   mounter, unmount_due, ahead, sessionVars, device_event_queue, busVars, flashVars, mounts,
                   observers, shutdown_requested, pc, event, result, seen, lamp,
                   lastStorage, signalled, cleanupLog>>

\* The scan is over: the observer is started, main prints its banner and
\* enters the loop
USBStorageMonitor_start_monitoring ==
    /\ pc = "scan"
    /\ scanner[1].scanned = scan_total(scanner[1].attached)
    /\ observers' = [observers EXCEPT !.storage = TRUE]
    /\ pc' = "loop"
    /\ UNCHANGED <<cfgVars, sessionVars, queueVars, busVars, flashVars, mounts,
                   shutdown_requested, event, result, seen, lamp, lastStorage,
                   signalled, cleanupLog>>

StartupNext ==
    \/ USBStorageMonitor_scan_existing_device
    \/ USBStorageMonitor_start_monitoring
    \/ main_loop_enter
    \/ main_storage_get
    \/ main_storage_empty
    \/ handle_storage_mounted
    \/ main_device_empty

StartupSpec == StartupInit /\ [][StartupNext]_vars

\* Neither the scan nor the loop stops while it can go on
FairStartupSpec == StartupSpec /\ WF_vars(StartupNext)

-----------------------------------------------------------------------------
(* flash() on its own, against a stub of the flashing tool *)

\* What the stub does at each of its invocations
ToolStubs == [1..MaxRetry -> ToolOutcomes]

\* flash(port) has just been called on a flasher with any retry_count
FlashInit ==
    /\ config \in Configs
    /\ tool \in ToolStubs
    /\ verifier = None
    /\ unmounter = None
    /\ caught = FALSE
    /\ scanner = None
    /\ led = None
    /\ mounter = None
    /\ security_enabled = TRUE
    /\ shutdown_requested = FALSE
    /\ current_usb_storage = None
    /\ current_firmware_path = None
    /\ storage_event_queue = <<>>
    /\ device_event_queue = <<>>
    /\ pc = "flash"
    /\ event = None
    /\ result = None
    /\ flasher = [firmware_path |-> default_firmware_path]
    /\ flash_locals = FlashStart
    /\ lamp = "updating"
    /\ observers = [device |-> FALSE, storage |-> FALSE]
    /\ plugged = {}
    /\ mounts = [d \in Partitions |-> None]
    /\ udev = 0
    /\ seen = Nothing
    /\ lastStorage = "none"
    /\ signalled = [busy |-> FALSE, dequeued |-> 0]
    /\ cleanupLog = <<>>
    /\ unmount_due = {}
    /\ ahead = None

FlashNext == FirmwareFlasher_flash

FlashSpec == FlashInit /\ [][FlashNext]_vars

-----------------------------------------------------------------------------
(* verify_usb_device() on its own, step by step, on any volume *)

\* What the orchestrator's variables are while a component runs on its own
idleVars ==
    <<sessionVars, queueVars, busVars, flashVars, mounts, observers,
      shutdown_requested, event, seen, lamp, lastStorage, signalled, cleanupLog,
      tool, unmounter, caught, scanner, led, mounter, unmount_due, ahead>>

\* verify_usb_device(mount_point) has just been called, under any flags, with
\* or without a public key, on a volume holding anything
VerifyInit ==
    /\ config \in Configs
    /\ security_enabled \in BOOLEAN
    /\ unmounter = None
    /\ caught = FALSE
    /\ scanner = None
    /\ led = None
    /\ mounter = None
    /\ verifier \in { Some([fs |-> fs, mount_point |-> os_path_join(mount_base, "sda1"),
                            steps |-> <<>>]) : fs \in VolumeContents }
    /\ tool = None
    /\ shutdown_requested = FALSE
    /\ current_usb_storage = None
    /\ current_firmware_path = None
    /\ storage_event_queue = <<>>
    /\ device_event_queue = <<>>
    /\ pc = "verify_structure"
    /\ event = None
    /\ result = None
    /\ flasher = [firmware_path |-> default_firmware_path]
    /\ flash_locals = NotFlashing
    /\ lamp = "validating"
    /\ observers = [device |-> FALSE, storage |-> FALSE]
    /\ plugged = {}
    /\ mounts = [d \in Partitions |-> None]
    /\ udev = 0
    /\ seen = Nothing
    /\ lastStorage = "none"
    /\ signalled = [busy |-> FALSE, dequeued |-> 0]
    /\ cleanupLog = <<>>
    /\ unmount_due = {}
    /\ ahead = None

\* The step is run; verify_usb_device returns its result when it failed
verify_step(step, res, next) ==
    /\ verifier' = Some([verifier[1] EXCEPT !.steps = Append(@, step)])
    /\ IF res.success
       THEN pc' = next /\ UNCHANGED result
       ELSE pc' = "verified" /\ result' = Some(res)
    /\ UNCHANGED <<idleVars, config, security_enabled>>

\* Step 1: result = self._check_file_structure(mount_point)
USBCertificateVerifier_check_file_structure ==
    /\ pc = "verify_structure"
    /\ verify_step("structure", _check_file_structure(config, verifier[1].fs),
                   "verify_manifest")

\* a verifier that goes on after a manifest that does not load
USBCertificateVerifier_load_device_info_goes_on ==
    /\ pc = "verify_manifest"
    /\ verifier' = Some([verifier[1] EXCEPT !.steps = Append(@, "manifest")])
    /\ pc' = "verify_certificate"
    /\ UNCHANGED <<idleVars, config, security_enabled, result>>

\* Step 2: device_info = self._load_device_info(mount_point)
USBCertificateVerifier_load_device_info ==
    /\ pc = "verify_manifest"
    /\ verify_step("manifest",
                   IF Truthy(_load_device_info(verifier[1].fs))
                   THEN VerificationResult(TRUE, <<>>, None, None, None)
                   ELSE VerificationResult(FALSE, <<"Failed to load device_info.json">>,
                                           None, None, None),
                   "verify_certificate")

\* Step 3: self._verify_certificate(mount_point), if enabled
USBCertificateVerifier_verify_certificate ==
    /\ pc = "verify_certificate"
    /\ IF security_enabled /\ config.require_certificate
       THEN verify_step("certificate", _verify_certificate(verifier[1].fs),
                        "verify_checksum")
       ELSE /\ pc' = "verify_checksum"
            /\ UNCHANGED <<idleVars, config, security_enabled, result, verifier>>

\* Step 4: self._verify_firmware_checksum(mount_point), if enabled
USBCertificateVerifier_verify_firmware_checksum ==
    /\ pc = "verify_checksum"
    /\ IF config.verify_checksum
       THEN verify_step("checksum", _verify_firmware_checksum(verifier[1].fs),
                        "verify_passed")
       ELSE /\ pc' = "verify_passed"
            /\ UNCHANGED <<idleVars, config, security_enabled, result, verifier>>

\* All checks passed
USBCertificateVerifier_verified ==
    /\ pc = "verify_passed"
    /\ result' = Some(VerificationResult(TRUE, <<"USB device verified successfully">>,
                                         _load_device_info(verifier[1].fs),
                                         os_path_join(verifier[1].mount_point, usb_path),
                                         verifier[1].mount_point))
    /\ pc' = "verified"
    /\ UNCHANGED <<idleVars, config, security_enabled, verifier>>

VerifyNext ==
    \/ USBCertificateVerifier_check_file_structure
    \/ USBCertificateVerifier_load_device_info
    \/ USBCertificateVerifier_verify_certificate
    \/ USBCertificateVerifier_verify_firmware_checksum
    \/ USBCertificateVerifier_verified

VerifySpec == VerifyInit /\ [][VerifyNext]_vars

-----------------------------------------------------------------------------
(* unmount_device() on its own, called again and again on a mount point *)

MountPoints == { os_path_join(mount_base, os_path_basename(d)) : d \in Partitions }

\* Any mount table, a mount point, its directory there or not
UnmountInit ==
    /\ mounts \in [Partitions -> {None} \cup MountPoints]
    /\ unmounter \in { Some([mount_point |-> mp, dir_exists |-> de, calls |-> <<>>]) :
                         mp \in MountPoints, de \in BOOLEAN }
    /\ pc = "unmount"
    /\ caught = FALSE
    /\ scanner = None
    /\ led = None
    /\ mounter = None
    /\ config \in OrchestratorConfigs
    /\ security_enabled = TRUE
    /\ verifier = None
    /\ tool = None
    /\ shutdown_requested = FALSE
    /\ current_usb_storage = None
    /\ current_firmware_path = None
    /\ storage_event_queue = <<>>
    /\ device_event_queue = <<>>
    /\ event = None
    /\ result = None
    /\ flasher = [firmware_path |-> default_firmware_path]
    /\ flash_locals = NotFlashing
    /\ lamp = "idle"
    /\ observers = [device |-> FALSE, storage |-> FALSE]
    /\ plugged = {}
    /\ udev = 0
    /\ seen = Nothing
    /\ lastStorage = "none"
    /\ signalled = [busy |-> FALSE, dequeued |-> 0]
    /\ cleanupLog = <<>>
    /\ unmount_due = {}
    /\ ahead = None

\* storage_monitor.unmount_device(mount_point): umount, rmdir, return
USBStorageMonitor_unmount_device ==
    /\ pc = "unmount"
    /\ Len(unmounter[1].calls) < MaxCalls
    /\ \E umount \in umount_runs(mounts, unmounter[1].mount_point) :
         LET mp == unmounter[1].mount_point
             after == unmount_device(mounts, mp, umount)
             removed == /\ umount # "timeout"
                        /\ rmdir_succeeds(after, mp, unmounter[1].dir_exists)
             call == [mounted |-> \E d \in Partitions : mounts[d] = mp,
                      dir_exists |-> unmounter[1].dir_exists,
                      umount |-> umount,
                      returns |-> unmount_device_returns(umount)]
         IN  /\ mounts' = after
             /\ unmounter' = Some([unmounter[1] EXCEPT
                                    !.dir_exists = @ /\ ~removed,
                                    !.calls = Append(@, call)])
             /\ result' = Some(call.returns)
    /\ UNCHANGED <<sessionVars, queueVars, busVars, flashVars, observers,
                   shutdown_requested, pc, event, seen, lamp, lastStorage, signalled,
                   cleanupLog, config, security_enabled, tool, verifier, caught,
                   scanner, led, mounter, unmount_due, ahead>>

UnmountNext == USBStorageMonitor_unmount_device

UnmountSpec == UnmountInit /\ [][UnmountNext]_vars

-----------------------------------------------------------------------------
(* The device validator on its own, on any device *)

\* Devices as the watcher may report them: ids in either letter case, of the
\* target or of another product, with a tty, a bus node or no node
ProbedDevices ==
    { USBDevice("1-1", node, vid, pid) :
        node \in { None, <<"/dev", "ttyUSB0">>, <<"/dev", "bus", "usb", "001", "005">> },
        vid \in { <<"3", "0", "3", "a">>, <<"3", "0", "3", "A">>, <<"1", "0", "c", "4">> },
        pid \in { <<"1", "0", "0", "1">>, <<"e", "a", "6", "0">>, <<"E", "A", "6", "0">> } }

ValidatorInit ==
    /\ event \in { Some(DeviceEvent("device_connected", d)) : d \in ProbedDevices }
    /\ pc = "validate"
    /\ config \in OrchestratorConfigs
    /\ security_enabled = TRUE
    /\ verifier = None
    /\ unmounter = None
    /\ caught = FALSE
    /\ scanner = None
    /\ led = None
    /\ mounter = None
    /\ tool = None
    /\ shutdown_requested = FALSE
    /\ current_usb_storage = None
    /\ current_firmware_path = None
    /\ storage_event_queue = <<>>
    /\ device_event_queue = <<>>
    /\ result = None
    /\ flasher = [firmware_path |-> default_firmware_path]
    /\ flash_locals = NotFlashing
    /\ lamp = "validating"
    /\ observers = [device |-> FALSE, storage |-> FALSE]
    /\ plugged = {}
    /\ mounts = [d \in Partitions |-> None]
    /\ udev = 0
    /\ seen = Nothing
    /\ lastStorage = "none"
    /\ signalled = [busy |-> FALSE, dequeued |-> 0]
    /\ cleanupLog = <<>>
    /\ unmount_due = {}
    /\ ahead = None

\* device_validator.is_valid_device(device)
DeviceValidator_is_valid_device ==
    /\ pc = "validate"
    /\ result' = Some([valid |-> is_valid_device(event[1].device)])
    /\ pc' = "validated"
    /\ UNCHANGED <<sessionVars, queueVars, busVars, flashVars, mounts, observers,
                   shutdown_requested, event, seen, lamp, lastStorage, signalled,
                   cleanupLog, cfgVars>>

\* device_validator.get_device_port(device), whatever /dev, /sys and udev hold
DeviceValidator_get_device_port ==
    /\ pc = "validated"
    /\ \E devfs \in DevFs, ttys \in TtyListings :
         result' = Some([valid |-> result[1].valid, devfs |-> devfs, ttys |-> ttys,
                         port |-> get_device_port(event[1].device, devfs, ttys)])
    /\ pc' = "port_resolved"
    /\ UNCHANGED <<sessionVars, queueVars, busVars, flashVars, mounts, observers,
                   shutdown_requested, event, seen, lamp, lastStorage, signalled,
                   cleanupLog, cfgVars>>

ValidatorNext ==
    \/ DeviceValidator_is_valid_device
    \/ DeviceValidator_get_device_port

ValidatorSpec == ValidatorInit /\ [][ValidatorNext]_vars

-----------------------------------------------------------------------------
(* _handle_event 'add' on its own, command by command, on one partition *)

\* Where the partition is mounted when it is plugged in: nowhere, or at the
\* mount point a desktop automounter gave it
ExistingMounts == { None, <<"/media", "usb0">> }

\* udev has delivered the 'add' of /dev/sda1 to the storage observer
MountInit ==
    /\ \E existing \in ExistingMounts, umount \in {"done", "timeout"}, runs \in MountRuns :
         /\ mounter = Some([device_node |-> <<"/dev", "sda1">>, umount |-> umount,
                            runs |-> runs, attempt |-> 0, commands |-> <<>>,
                            backoffs |-> 0, storage |-> None, at |-> "_mount_device"])
         /\ mounts = [d \in Partitions |-> IF d = <<"/dev", "sda1">> THEN existing ELSE None]
    /\ plugged = {<<"/dev", "sda1">>}
    /\ observers = [device |-> TRUE, storage |-> TRUE]
    /\ pc = "loop"
    /\ config \in OrchestratorConfigs
    /\ security_enabled = TRUE
    /\ tool = None
    /\ verifier = None
    /\ unmounter = None
    /\ caught = FALSE
    /\ scanner = None
    /\ led = None
    /\ shutdown_requested = FALSE
    /\ current_usb_storage = None
    /\ current_firmware_path = None
    /\ storage_event_queue = <<>>
    /\ device_event_queue = <<>>
    /\ event = None
    /\ result = None
    /\ flasher = [firmware_path |-> default_firmware_path]
    /\ flash_locals = NotFlashing
    /\ lamp = "idle"
    /\ udev = 0
    /\ seen = Nothing
    /\ lastStorage = "none"
    /\ signalled = [busy |-> FALSE, dequeued |-> 0]
    /\ cleanupLog = <<>>
    /\ unmount_due = {}
    /\ ahead = None

\* Everything but the _mount_device call, the mount table and the storage queue
mountFrame ==
    <<config, security_enabled, tool, verifier, unmounter, caught, scanner, led,
      sessionVars, device_event_queue, busVars, flashVars, observers,
      shutdown_requested, pc, event, result, seen, lamp, lastStorage, signalled,
      cleanupLog, unmount_due, ahead>>

\* _mount_device up to its retry loop: the look at /proc/mounts, then the
\* cleanup 'umount -l', rmdir and makedirs
USBStorageMonitor_mount_device ==
    /\ mounter[1].at = "_mount_device"
    /\ LET m == mounter[1]
           existing_mount == _get_existing_mount(mounts, m.device_node)
       IN  mounter' = Some(
             IF Truthy(existing_mount)
             THEN [m EXCEPT !.storage = Some(USBStorage(m.device_node, existing_mount)),
                            !.at = "returned"]
             ELSE IF m.umount = "timeout"
             THEN [m EXCEPT !.commands = Append(@, "umount"), !.at = "returned"]
             ELSE [m EXCEPT !.commands = Append(@, "umount"), !.at = "mount"])
    /\ UNCHANGED <<mountFrame, mounts, storage_event_queue>>

\* One iteration of the retry loop of _mount_device: a 'sudo mount', then the
\* return, or sleep(1) and the next iteration
USBStorageMonitor_mount_device_attempt ==
    /\ mounter[1].at = "mount"
    /\ LET m == mounter[1]
           it == mount_iteration(m.attempt, m.runs[m.attempt + 1])
           mount_point == os_path_join(mount_base, os_path_basename(m.device_node))
       IN  /\ mounter' = Some(
                [m EXCEPT !.commands = Append(@, "mount"),
                          !.backoffs = IF it.sleeps THEN @ + 1 ELSE @,
                          !.attempt = IF it.ends THEN @ ELSE @ + 1,
                          !.storage = IF it.mounted
                                      THEN Some(USBStorage(m.device_node, mount_point))
                                      ELSE None,
                          !.at = IF it.ends THEN "returned" ELSE "mount"])
           /\ mounts' = IF it.mounted
                        THEN [mounts EXCEPT ![m.device_node] = mount_point]
                        ELSE mounts
    /\ UNCHANGED <<mountFrame, storage_event_queue>>

\* _handle_event after _mount_device returned: the event is put, or not
USBStorageMonitor_handle_add_put ==
    /\ mounter[1].at = "returned"
    /\ IF Truthy(mounter[1].storage)
       THEN /\ ~queue_full(storage_event_queue)
            /\ storage_event_queue' =
                 Append(storage_event_queue,
                        StorageEvent("usb_storage_mounted", mounter[1].storage[1]))
       ELSE UNCHANGED storage_event_queue
    /\ mounter' = Some([mounter[1] EXCEPT !.at = "done"])
    /\ UNCHANGED <<mountFrame, mounts>>

MountNext ==
    \/ USBStorageMonitor_mount_device
    \/ USBStorageMonitor_mount_device_attempt
    \/ USBStorageMonitor_handle_add_put

MountSpec == MountInit /\ [][MountNext]_vars

-----------------------------------------------------------------------------
(* The LED controller (led_controller.py) with its blink threads *)

\* show_idle, show_validating, show_updating, show_success, show_error
SolidModes == {"idle", "success", "error"}
BlinkModes == {"validating", "updating"}

\* The LED a solid mode switches on
solid_led(mode) == IF mode = "error" THEN "led_red" ELSE "led_green"

\* Thread.is_alive() of self.blink_thread
blink_thread_alive(c) ==
    Truthy(c.blink_thread) /\ c.threads[c.blink_thread[1]] # "dead"

\* Event.set(): the threads waiting in blink_stop.wait(interval) are notified,
\* their wait returns True whatever happens to the flag afterwards
Event_set(threads) ==
    [t \in DOMAIN threads |->
        IF threads[t] \in {"wait_on", "wait_off"} THEN "break" ELSE threads[t]]

\* Everything but the LED controller
ledFrame ==
    <<config, security_enabled, tool, verifier, unmounter, caught, scanner, mounter,
      sessionVars, queueVars, busVars, flashVars, mounts, observers,
      shutdown_requested, pc, event, result, seen, lamp, lastStorage, signalled,
      cleanupLog, unmount_due, ahead>>

\* LEDController.__init__ has returned: LEDs off, no blink thread
LedInit ==
    /\ led = Some([led_green |-> FALSE, led_yellow |-> FALSE, led_red |-> FALSE,
                   blink_stop |-> FALSE, blink_thread |-> None, threads |-> <<>>,
                   at |-> "ready", mode |-> "off", shown |-> "off", shows |-> 0])
    /\ config \in OrchestratorConfigs
    /\ security_enabled = TRUE
    /\ tool = None
    /\ verifier = None
    /\ unmounter = None
    /\ caught = FALSE
    /\ scanner = None
    /\ mounter = None
    /\ shutdown_requested = FALSE
    /\ current_usb_storage = None
    /\ current_firmware_path = None
    /\ storage_event_queue = <<>>
    /\ device_event_queue = <<>>
    /\ pc = "loop"
    /\ event = None
    /\ result = None
    /\ flasher = [firmware_path |-> default_firmware_path]
    /\ flash_locals = NotFlashing
    /\ lamp = "idle"
    /\ observers = [device |-> TRUE, storage |-> TRUE]
    /\ plugged = {}
    /\ mounts = [d \in Partitions |-> None]
    /\ udev = 0
    /\ seen = Nothing
    /\ lastStorage = "none"
    /\ signalled = [busy |-> FALSE, dequeued |-> 0]
    /\ cleanupLog = <<>>
    /\ unmount_due = {}
    /\ ahead = None

\* The main thread calls show_idle, show_validating, show_updating,
\* show_success or show_error: it enters all_off
LEDController_show ==
    /\ led[1].at = "ready"
    /\ led[1].shows < MaxShows
    /\ \E mode \in SolidModes \cup BlinkModes :
         led' = Some([led[1] EXCEPT !.at = "all_off", !.mode = mode, !.shows = @ + 1])
    /\ UNCHANGED ledFrame

\* stop_blinking, called by all_off and by start_blinking: if the blink thread
\* is alive, blink_stop.set(), then join(timeout=1.0)
LEDController_stop_blinking ==
    /\ led[1].at \in {"all_off", "start_blinking"}
    /\ led' = Some(IF blink_thread_alive(led[1])
                   THEN [led[1] EXCEPT !.blink_stop = TRUE,
                                       !.threads = Event_set(@),
                                       !.at = IF @ = "all_off" THEN "all_off_join"
                                              ELSE "start_blinking_join"]
                   ELSE [led[1] EXCEPT !.at = IF @ = "all_off" THEN "all_off_leds"
                                              ELSE "start_blinking_clear"])
    /\ UNCHANGED ledFrame

\* blink_thread.join(timeout=1.0) returns: the thread has ended, or one second
\* has elapsed
LEDController_stop_blinking_join ==
    /\ led[1].at \in {"all_off_join", "start_blinking_join"}
    /\ led' = Some([led[1] EXCEPT !.at = IF @ = "all_off_join" THEN "all_off_leds"
                                         ELSE "start_blinking_clear"])
    /\ UNCHANGED ledFrame

\* all_off after stop_blinking: the three LEDs are switched off
LEDController_all_off ==
    /\ led[1].at = "all_off_leds"
    /\ led' = Some([led[1] EXCEPT !.led_green = FALSE, !.led_yellow = FALSE,
                                  !.led_red = FALSE,
                                  !.at = IF led[1].mode \in SolidModes
                                         THEN "led_on" ELSE "start_blinking"])
    /\ UNCHANGED ledFrame

\* show_idle, show_success, show_error after all_off: one LED is switched on
LEDController_show_solid ==
    /\ led[1].at = "led_on"
    /\ led' = Some([led[1] EXCEPT ![solid_led(led[1].mode)] = TRUE,
                                  !.shown = led[1].mode,
                                  !.at = "ready"])
    /\ UNCHANGED ledFrame

\* start_blinking after stop_blinking: self.blink_stop.clear()
LEDController_start_blinking_clear ==
    /\ led[1].at = "start_blinking_clear"
    /\ led' = Some([led[1] EXCEPT !.blink_stop = FALSE, !.at = "start_blinking_start"])
    /\ UNCHANGED ledFrame

\* start_blinking: self.blink_thread = Thread(target=self._blink_loop, ...);
\* self.blink_thread.start()
LEDController_start_blinking_start ==
    /\ led[1].at = "start_blinking_start"
    /\ led' = Some([led[1] EXCEPT !.threads = Append(@, "while"),
                                  !.blink_thread = Some(Len(led[1].threads) + 1),
                                  !.shown = led[1].mode,
                                  !.at = "ready"])
    /\ UNCHANGED ledFrame

\* _blink_loop in thread t: while not self.blink_stop.is_set()
LEDController_blink_loop_while(t) ==
    /\ led[1].threads[t] = "while"
    /\ led' = Some([led[1] EXCEPT !.threads[t] =
                      IF led[1].blink_stop THEN "break" ELSE "on"])
    /\ UNCHANGED ledFrame

\* _blink_loop in thread t: led.on() / led.off() inside the loop (both callers
\* pass led_yellow)
LEDController_blink_loop_toggle(t) ==
    /\ led[1].threads[t] \in {"on", "off"}
    /\ led' = Some([led[1] EXCEPT !.led_yellow = (led[1].threads[t] = "on"),
                                  !.threads[t] = IF @ = "on" THEN "enter_wait_on"
                                                 ELSE "enter_wait_off"])
    /\ UNCHANGED ledFrame

\* _blink_loop in thread t: blink_stop.wait(interval) is entered; it returns
\* True at once when the flag is set
LEDController_blink_loop_wait(t) ==
    /\ led[1].threads[t] \in {"enter_wait_on", "enter_wait_off"}
    /\ led' = Some([led[1] EXCEPT !.threads[t] =
                      IF led[1].blink_stop THEN "break"
                      ELSE IF @ = "enter_wait_on" THEN "wait_on" ELSE "wait_off"])
    /\ UNCHANGED ledFrame

\* _blink_loop in thread t: blink_stop.wait(interval) returns False, the
\* interval has elapsed
LEDController_blink_loop_interval(t) ==
    /\ led[1].threads[t] \in {"wait_on", "wait_off"}
    /\ led' = Some([led[1] EXCEPT !.threads[t] =
                      IF @ = "wait_on" THEN "off" ELSE "while"])
    /\ UNCHANGED ledFrame

\* _blink_loop in thread t: the loop is left, led.off(), the thread ends
LEDController_blink_loop_end(t) ==
    /\ led[1].threads[t] = "break"
    /\ led' = Some([led[1] EXCEPT !.led_yellow = FALSE, !.threads[t] = "dead"])
    /\ UNCHANGED ledFrame

BlinkThreads == DOMAIN led[1].threads

LedNext ==
    \/ LEDController_show
    \/ LEDController_stop_blinking
    \/ LEDController_stop_blinking_join
    \/ LEDController_all_off
    \/ LEDController_show_solid
    \/ LEDController_start_blinking_clear
    \/ LEDController_start_blinking_start
    \/ \E t \in BlinkThreads : LEDController_blink_loop_while(t)
    \/ \E t \in BlinkThreads : LEDController_blink_loop_toggle(t)
    \/ \E t \in BlinkThreads : LEDController_blink_loop_wait(t)
    \/ \E t \in BlinkThreads : LEDController_blink_loop_interval(t)
    \/ \E t \in BlinkThreads : LEDController_blink_loop_end(t)

LedSpec == LedInit /\ [][LedNext]_vars

-----------------------------------------------------------------------------
(* Properties *)

NoSession == Session(None, None)

IsPrefix(q, r) == Len(q) <= Len(r) /\ SubSeq(r, 1, Len(q)) = q

\* The event being handled, or last handled, is of this type
Handling(type) == Truthy(event) /\ event[1].type = type

\* A handler has just returned to the head of the loop
JustHandled(type) == pc = "loop" /\ Handling(type)

FlashRunning == pc \in {"flash", "flash_returned"}

RemovalQueued ==
    \E i \in 1..Len(storage_event_queue) :
        storage_event_queue[i].type = "usb_storage_removed"

\* C1: between two handlers, current_firmware_path is set if and only if the
\* storage event handled last was a mounted event whose verification succeeded
C1_path_iff_last_mount_verified ==
    Polling => (Truthy(current_firmware_path) <=> lastStorage = "mounted_verified")

\* C2: the flashing tool runs only for a device_connected event of the target
\* device, with a firmware path in the session and a port found, and the path
\* it flashes is the session's current_firmware_path; a connect event handled
\* without these runs no tool
C2_flash_only_when_ready ==
    /\ (seen.tool_calls > 0 \/ FlashRunning \/ Truthy(seen.flash_call))
         => /\ Handling("device_connected")
            /\ Truthy(seen.flash_call)
            /\ is_valid_device(event[1].device)
            /\ Truthy(current_firmware_path)
            /\ Truthy(seen.flash_call[1].port)
            /\ seen.flash_call[1].firmware_path = current_firmware_path
            /\ flasher.firmware_path = current_firmware_path
    /\ (Handling("device_connected")
        /\ (~is_valid_device(event[1].device) \/ ~Truthy(current_firmware_path)))
         => seen.tool_calls = 0 /\ ~FlashRunning

C2_witness ==
    /\ pc = "flash" /\ seen.tool_calls = 1
    /\ Handling("device_connected")
    /\ flasher.firmware_path = current_firmware_path

\* C3: in every iteration the storage queue is polled before the device queue;
\* a storage event that was dequeued is handled and the iteration ends without
\* a poll of the device queue; a device event is dequeued only after the
\* storage poll of the same iteration found nothing
C3_storage_polled_first ==
    /\ seen.device_poll # "unpolled" => seen.storage_poll = "empty"
    /\ pc = "poll_device" => seen.storage_poll = "empty" /\ seen.device_poll = "unpolled"
    /\ pc \in {"storage_mounted", "storage_removed"}
         => seen.storage_poll = "event" /\ seen.device_poll = "unpolled"
    /\ seen.storage_poll = "event" => seen.device_poll = "unpolled" /\ pc # "poll_device"
    /\ pc \in {"device_connected", "device_disconnected", "flash", "flash_returned",
               "device_dwell"}
         => seen.storage_poll = "empty" /\ seen.device_poll = "event"

C3_witness ==
    /\ pc = "device_connected"
    /\ seen.storage_poll = "empty" /\ seen.device_poll = "event"
    /\ storage_event_queue # <<>>

\* C4: while flash() runs and until its handler has finished, the session is
\* unchanged and nothing leaves the storage queue, so a removal enqueued
\* meanwhile stays queued; unless a shutdown is requested, it is handled
\* afterwards and then both session fields are empty
C4_removal_waits_for_flash ==
    /\ [][(pc \in {"flash", "flash_returned", "device_dwell"})
            => (/\ session' = session
                /\ IsPrefix(storage_event_queue, storage_event_queue')
                /\ pc' \in {"flash", "flash_returned", "device_dwell", "loop"})]_vars
    /\ (FlashRunning /\ RemovalQueued)
         ~> (shutdown_requested
             \/ (JustHandled("usb_storage_removed") /\ session = NoSession))

C4_witness ==
    /\ pc = "device_dwell" /\ seen.tool_calls > 0
    /\ RemovalQueued
    /\ Truthy(current_usb_storage) /\ Truthy(current_firmware_path)
    /\ ~shutdown_requested

\* C5: a target device connecting while current_firmware_path is empty starts
\* no flash, the lamp shows error and then idle, and the handler returns to the
\* loop with both session fields still empty
C5_no_firmware_refused ==
    (Handling("device_connected") /\ is_valid_device(event[1].device)
     /\ ~Truthy(current_firmware_path))
      => /\ seen.tool_calls = 0 /\ seen.flash_call = None /\ ~FlashRunning
         /\ pc = "device_dwell" => lamp = "error"
         /\ pc = "loop" => /\ seen.lamps = <<"validating", "error", "idle">>
                           /\ lamp = "idle"
                           /\ session = NoSession

C5_witness ==
    /\ JustHandled("device_connected") /\ is_valid_device(event[1].device)
    /\ ~Truthy(current_firmware_path)
    /\ seen.lamps = <<"validating", "error", "idle">>

\* The volume holds a manifest that loads, the firmware image, and a checksum
\* file whose line is the digest of the image
HoldsVerifiableFirmware(fs) ==
    /\ fs.device_info = "valid"
    /\ fs.firmware \in Images
    /\ fs.checksum = _calculate_sha256(fs.firmware) \o <<"\n">>

\* C6: with verify_checksum on and require_certificate off, after the mounted
\* event of a volume holding the manifest, the image and the matching checksum
\* is handled, current_usb_storage is that volume and current_firmware_path is
\* the firmware path under its mount point
C6_verified_volume_recorded ==
    (JustHandled("usb_storage_mounted") /\ Truthy(seen.fs)
     /\ config.verify_checksum /\ ~config.require_certificate
     /\ HoldsVerifiableFirmware(seen.fs[1]))
      => /\ current_usb_storage = Some(event[1].data)
         /\ Truthy(current_firmware_path)
         /\ current_firmware_path = event[1].data.mount_point \o <<"firmware.bin">>
         /\ result[1].success

C6_witness ==
    /\ JustHandled("usb_storage_mounted") /\ Truthy(seen.fs)
    /\ HoldsVerifiableFirmware(seen.fs[1])
    /\ seen.before # Some(NoSession)
    /\ current_usb_storage = Some(event[1].data)

\* C7: after a removed event is handled, whatever the session was, both session
\* fields are empty and the lamp is idle
C7_removed_clears_session ==
    JustHandled("usb_storage_removed")
      => session = NoSession /\ lamp = "idle" /\ Last(seen.lamps) = "idle"

C7_witness ==
    /\ JustHandled("usb_storage_removed")
    /\ Truthy(seen.before) /\ Truthy(seen.before[1].storage)
    /\ seen.before[1].storage[1].device_node # event[1].data
    /\ session = NoSession

\* C8: once the cleanup of the shutdown has run, both session fields are empty
C8_cleanup_clears_session ==
    pc = "exit" => session = NoSession

\* C9: after the signal at most one more event is handled, the one of the
\* iteration in progress; the loop is then left, and the cleanup runs in the
\* end: device monitor stopped, storage monitor stopped, the volume unmounted
\* if and only if one is recorded, the lamp driver released; what is still
\* queued is never handled
C9_shutdown ==
    /\ [](shutdown_requested
            => signalled.dequeued + (IF signalled.busy THEN 1 ELSE 0) <= 1)
    /\ [](pc = "loop" /\ shutdown_requested => ~ENABLED main_loop_enter)
    /\ [](pc = "exit"
            => /\ cleanupLog =
                    IF current_usb_storage # None
                    THEN <<"device_monitor.stop_monitoring",
                           "storage_monitor.stop_monitoring",
                           "storage_monitor.unmount_device", "led.cleanup">>
                    ELSE <<"device_monitor.stop_monitoring",
                           "storage_monitor.stop_monitoring", "led.cleanup">>
               /\ ~observers.device /\ ~observers.storage /\ lamp = "closed")
    /\ [][(pc \in {"finally", "exit"})
            => (/\ IsPrefix(storage_event_queue, storage_event_queue')
                /\ IsPrefix(device_event_queue, device_event_queue')
                /\ UNCHANGED <<sessionVars, event>>
                /\ pc' \in {"finally", "exit"})]_vars
    /\ shutdown_requested ~> (pc = "exit")

C9_witness ==
    /\ pc = "exit" /\ signalled.dequeued = 1
    /\ storage_event_queue # <<>> /\ device_event_queue # <<>>
    /\ Truthy(current_usb_storage)
    /\ Len(cleanupLog) = 4

\* The number of invocations the stub fails before its first exit 0, counted
\* up to the first n
LeadingFailures(stub, n) ==
    LET ok(i) == stub[i].kind = "exit" /\ stub[i].code = 0
    IN  IF \E i \in 1..n : ok(i)
        THEN (CHOOSE i \in 1..n : ok(i) /\ \A j \in 1..(i - 1) : ~ok(j)) - 1
        ELSE n

\* C10: when the tool fails k < retry_count times (non-zero exit, timeout,
\* tool not found, in any mix) and then exits 0, flash() returns success with
\* attempt k+1 after k+1 invocations; when every invocation fails it returns
\* failure with attempt retry_count after retry_count invocations
C10_flash_retries ==
    pc = "flash_returned" =>
        LET k == LeadingFailures(tool, config.retry_count)
        IN  IF k < config.retry_count
            THEN /\ result[1].success
                 /\ result[1].attempt = k + 1
                 /\ seen.tool_calls = k + 1
            ELSE /\ ~result[1].success
                 /\ result[1].attempt = config.retry_count
                 /\ seen.tool_calls = config.retry_count

C10_witness ==
    /\ pc = "flash_returned"
    /\ tool[1].kind = "notfound"
    /\ result[1].success /\ result[1].attempt = 2

\* The reason the claim gives for a failed run of the tool
ClassifiedReason(outcome) ==
    CASE outcome.kind = "exit" -> <<"Tool returned error code", outcome.code>>
      [] outcome.kind = "timeout" -> <<"Flash timeout after", 120>>
      [] outcome.kind = "notfound" -> <<"Flash tool not found", "esptool.py">>
      [] OTHER -> <<"str(e)">>

\* C11: when every attempt fails, the failure flash() returns carries the
\* reason of the last attempt: the error code of a non-zero exit, the timeout,
\* or the missing tool
C11_last_error_reported ==
    (pc = "flash_returned" /\ ~result[1].success)
      => /\ result[1].attempt = config.retry_count
         /\ result[1].message =
              <<"Flash failed after", config.retry_count, "attempts. Last error:",
                ClassifiedReason(tool[config.retry_count])>>

C11_witness ==
    /\ pc = "flash_returned" /\ ~result[1].success
    /\ config.retry_count = 2
    /\ tool[1].kind = "timeout" /\ tool[2].kind = "notfound"
    /\ result[1].message[4] = <<"Flash tool not found", "esptool.py">>

\* The steps the flags ask for, in the order of the pipeline
ExpectedSteps ==
    <<"structure", "manifest">>
    \o (IF security_enabled /\ config.require_certificate THEN <<"certificate">> ELSE <<>>)
    \o (IF config.verify_checksum THEN <<"checksum">> ELSE <<>>)

\* What a step finds on the volume under verification
StepResult(step) ==
    CASE step = "structure" -> _check_file_structure(config, verifier[1].fs)
      [] step = "manifest" ->
            IF verifier[1].fs.device_info = "valid"
            THEN VerificationResult(TRUE, <<>>, None, None, None)
            ELSE VerificationResult(FALSE, <<"Failed to load device_info.json">>,
                                    None, None, None)
      [] step = "certificate" -> _verify_certificate(verifier[1].fs)
      [] OTHER -> _verify_firmware_checksum(verifier[1].fs)

\* C12: verification runs structure check, manifest load, certificate step
\* (when enabled) and checksum step (when enabled) in this order; every step
\* run but the last one passed; a failed verdict is the result of the last
\* step run, so nothing runs after a failure; a verdict passes only after all
\* the steps
C12_fail_fast ==
    /\ IsPrefix(verifier[1].steps, ExpectedSteps)
    /\ \A i \in 1..(Len(verifier[1].steps) - 1) : StepResult(verifier[1].steps[i]).success
    /\ pc = "verified" =>
         /\ result[1] = verify_usb_device(config, security_enabled,
                                          verifier[1].mount_point, verifier[1].fs)
         /\ IF result[1].success
            THEN verifier[1].steps = ExpectedSteps
            ELSE /\ result[1] = StepResult(Last(verifier[1].steps))
                 /\ ~StepResult(Last(verifier[1].steps)).success

C12_witness ==
    /\ pc = "verified" /\ ~result[1].success
    /\ config.require_certificate /\ config.verify_checksum /\ security_enabled
    /\ verifier[1].steps = <<"structure", "manifest", "certificate">>
    /\ verifier[1].fs.checksum = <<"7c", "0e", "\n">>
    /\ verifier[1].fs.firmware = "image1"

\* C13: with require_certificate and verify_checksum both off and a manifest
\* that loads whenever it exists, verification succeeds if and only if the
\* manifest file and the firmware image exist, whether or not the signature
\* file and the checksum file are there
C13_flags_off_needs_two_files ==
    (pc = "verified" /\ ~config.require_certificate /\ ~config.verify_checksum
     /\ verifier[1].fs.device_info # "malformed")
      => (result[1].success
            <=> (verifier[1].fs.device_info # "absent"
                 /\ verifier[1].fs.firmware # "absent"))

C13_witness ==
    /\ pc = "verified" /\ ~config.require_certificate /\ ~config.verify_checksum
    /\ verifier[1].fs.device_info = "valid" /\ verifier[1].fs.firmware = "image2"
    /\ verifier[1].fs.certificate = "absent"
    /\ verifier[1].fs.checksum = <<"absent">>
    /\ result[1].success

\* C14: without a public key, verification gives for every volume the verdict
\* it would give with require_certificate off
C14_no_key_disables_certificate ==
    (pc = "verified" /\ ~security_enabled)
      => result[1].success =
           verify_usb_device([config EXCEPT !.require_certificate = FALSE],
                             security_enabled, verifier[1].mount_point,
                             verifier[1].fs).success

\* The SHA-256 of the image in lower-case hex, and the text of the checksum
\* file without its surrounding whitespace
HexDigest(image) == IF image = "image1" THEN <<"3f", "a9">> ELSE <<"7c", "0e">>
Unpadded(text) == SelectSeq(text, LAMBDA c : c \notin {" ", "\n", "\t"})
ChecksumStepRan == verifier[1].steps # <<>> /\ Last(verifier[1].steps) = "checksum"
ChecksumStepFailed == pc = "verified" /\ ~result[1].success

\* C15: the checksum step passes if and only if the lower-case hex digest of
\* the image is the text of the checksum file without surrounding whitespace,
\* letter case included; it fails with the mismatch reason otherwise, and the
\* same checksum file with another image fails with it
C15_checksum_step ==
    ChecksumStepRan =>
        LET fs == verifier[1].fs
        IN  /\ ~ChecksumStepFailed <=> HexDigest(fs.firmware) = Unpadded(fs.checksum)
            /\ ChecksumStepFailed =>
                 result[1].message = <<"Firmware checksum mismatch - file may be corrupted">>
            /\ (fs.checksum = <<"3F", "A9">> /\ fs.firmware = "image1") => ChecksumStepFailed
            /\ ~ChecksumStepFailed =>
                 \A other \in Images \ {fs.firmware} :
                    LET changed == _verify_firmware_checksum([fs EXCEPT !.firmware = other])
                    IN  /\ ~changed.success
                        /\ changed.message =
                             <<"Firmware checksum mismatch - file may be corrupted">>

C15_witness ==
    /\ ChecksumStepRan /\ ChecksumStepFailed
    /\ verifier[1].fs.checksum = <<"3F", "A9">> /\ verifier[1].fs.firmware = "image1"
    /\ result[1].message = <<"Firmware checksum mismatch - file may be corrupted">>

\* C16: is_valid_device is true if and only if the device's vendor id is the
\* configured one and its product id is the configured one, letter case
\* ignored on both sides (the configuration writes 303A, udev reports 303a)
C16_target_iff_both_ids_match ==
    pc \in {"validated", "port_resolved"} =>
        (result[1].valid
           <=> /\ event[1].device.vid \in { <<"3", "0", "3", "a">>, <<"3", "0", "3", "A">> }
               /\ event[1].device.pid = <<"1", "0", "0", "1">>)

C16_witness ==
    /\ pc = "validated" /\ result[1].valid
    /\ event[1].device.vid = <<"3", "0", "3", "A">>

\* C17: unmount_device called on a mount point that an earlier call left
\* unmounted and without its directory returns what that call returned
C17_unmount_twice ==
    unmounter # None =>
        \A i \in 2..Len(unmounter[1].calls) :
            LET first == unmounter[1].calls[i - 1]
                second == unmounter[1].calls[i]
            IN  (~second.mounted /\ ~second.dir_exists)
                  => second.returns = first.returns

C17_witness ==
    /\ unmounter # None /\ Len(unmounter[1].calls) = 2
    /\ unmounter[1].calls[1].mounted /\ unmounter[1].calls[1].dir_exists
    /\ ~unmounter[1].calls[2].mounted /\ ~unmounter[1].calls[2].dir_exists
    /\ unmounter[1].calls[2].returns = TRUE

\* C18: an exception raised while an event is handled is caught by the loop,
\* which goes on: the loop is left only after a shutdown request, and an event
\* in a queue after an exception was caught still reaches its handler
\* (unless a shutdown is requested first)
C18_loop_survives_exceptions ==
    /\ [](pc \in {"finally", "exit"} => shutdown_requested)
    /\ [][(caught' /\ ~caught) => pc' = "loop"]_vars
    /\ (caught /\ storage_event_queue # <<>>)
         ~> (shutdown_requested \/ pc \in {"storage_mounted", "storage_removed"})
    /\ (caught /\ device_event_queue # <<>>)
         ~> (shutdown_requested \/ pc \in {"device_connected", "device_disconnected"})

C18_witness ==
    /\ caught /\ ~shutdown_requested
    /\ pc = "flash" /\ seen.tool_calls = 1
    /\ Truthy(current_firmware_path)

\* C19: no queue ever holds more than its capacity, and a producer with a
\* notification to deliver completes its enqueue even when the orchestrator
\* is not dequeuing
C19_enqueue_never_blocks ==
    /\ Len(storage_event_queue) <= maxsize
    /\ Len(device_event_queue) <= maxsize
    /\ (udev < MaxEvents /\ observers.storage /\ plugged # {})
         => ENABLED USBStorageMonitor_handle_remove
    /\ (udev < MaxEvents /\ observers.device)
         => \A dev \in UdevDevices : ENABLED USBMonitor_handle_event_of(dev, "remove", None)

\* The partitions of the startup scan that are mounted or mount
ScanMountable == scanner[1].attached.mounted + scanner[1].attached.mounting

\* C20: whatever number of partitions is attached at startup, the scan ends
\* with one mounted event enqueued for each partition that is mounted or
\* mounts, the loop is reached, and all these events end up handled
C20_startup_scan_completes ==
    /\ [][(pc = "scan" /\ pc' = "loop")
            => (/\ Len(storage_event_queue) = ScanMountable
                /\ \A j \in 1..ScanMountable :
                     storage_event_queue[j].data.device_node = ScanPartition(j))]_vars
    /\ <>(pc = "loop" /\ storage_event_queue = <<>>)

\* The blink loops that are running: threads inside the while loop of
\* _blink_loop
BlinkLoopsRunning ==
    { t \in BlinkThreads : led[1].threads[t] \notin {"break", "dead"} }

\* A solid mode is on display: its show_* call has returned, no other has begun
SolidShown == led[1].at = "ready" /\ led[1].shown \in SolidModes

\* C21: at most one blink loop runs at any time, and while a solid mode is on
\* display no blink thread changes an LED
C21_one_blink_loop ==
    /\ [](Cardinality(BlinkLoopsRunning) <= 1)
    /\ [][(SolidShown /\ led'[1].at = "ready")
            => (/\ led'[1].led_green = led[1].led_green
                /\ led'[1].led_yellow = led[1].led_yellow
                /\ led'[1].led_red = led[1].led_red)]_vars

\* The mount point the storage manager gives a partition
MountPointOf(device_node) == os_path_join(mount_base, os_path_basename(device_node))

\* C22: a volume whose mounted event was handled has had unmount_device called
\* with its mount point once its removed event is handled, and once the
\* shutdown cleanup is over
C22_handled_volume_unmounted ==
    /\ JustHandled("usb_storage_removed")
         => MountPointOf(event[1].data) \notin unmount_due
    /\ pc = "exit" => unmount_due = {}

\* C23: the handling of a device_disconnected event changes neither the
\* session nor the lamp, and the iteration that handled it has shown no lamp,
\* verified no volume, called flash() not at all and run no tool
C23_disconnect_changes_nothing ==
    /\ [][(pc = "device_disconnected" /\ pc' # pc)
            => (/\ current_firmware_path' = current_firmware_path
                /\ current_usb_storage' = current_usb_storage
                /\ lamp' = lamp
                /\ result' = result
                /\ flashVars' = flashVars)]_vars
    /\ [](JustHandled("device_disconnected")
            => (/\ seen.lamps = <<>>
                /\ seen.fs = None
                /\ seen.flash_call = None
                /\ seen.tool_calls = 0
                /\ result = None))

C23_witness ==
    /\ JustHandled("device_disconnected")
    /\ Truthy(current_firmware_path)
    /\ Truthy(current_usb_storage)

\* The run of the tool at the given attempt exits with code 0
ToolSucceeds(attempt) == tool[attempt].kind = "exit" /\ tool[attempt].code = 0

\* C24: flash() waits retry_delay only after a failed attempt that another
\* attempt follows, so that between attempts there have been as many waits as
\* invocations, and a flash() that returns after n invocations has waited
\* n - 1 times
C24_waits_between_attempts ==
    /\ [](pc = "flash" => seen.delays = seen.tool_calls)
    /\ [](pc = "flash_returned" => seen.delays + 1 = seen.tool_calls)
    /\ [][(seen'.delays # seen.delays)
            => (/\ seen'.delays = seen.delays + 1
                /\ ~ToolSucceeds(flash_locals.attempt)
                /\ pc' = "flash"
                /\ flash_locals'.attempt = flash_locals.attempt + 1)]_vars

C24_witness ==
    /\ pc = "flash_returned"
    /\ ~result[1].success
    /\ seen.tool_calls = MaxRetry
    /\ seen.delays = MaxRetry - 1

\* C25: whatever the runs of the tool do, flash() goes on until it returns a
\* FlashResult; it runs the tool at most retry_count times and never after a
\* run that exited with code 0; it returns success only if its last run
\* exited with code 0
C25_flash_always_returns ==
    /\ pc \in {"flash", "flash_returned"}
    /\ seen.tool_calls <= config.retry_count
    /\ \A i \in 1..(seen.tool_calls - 1) : ~ToolSucceeds(i)
    /\ pc = "flash"
         => /\ ENABLED FirmwareFlasher_flash
            /\ flash_locals.attempt = seen.tool_calls + 1
            /\ seen.tool_calls < config.retry_count
            /\ \A i \in 1..seen.tool_calls : ~ToolSucceeds(i)
    /\ pc = "flash_returned"
         => /\ Truthy(result)
            /\ result[1].success \in BOOLEAN
            /\ seen.tool_calls >= 1
            /\ result[1].success => ToolSucceeds(seen.tool_calls)

C25_witness ==
    /\ pc = "flash_returned"
    /\ tool[1].kind = "raises"
    /\ result[1].success
    /\ seen.tool_calls = 2

\* get_device_port took the port from the probe of the conventional names:
\* the device's own node is no tty and a conventional port exists
FoundByProbing ==
    /\ pc = "port_resolved"
    /\ ~(Truthy(event[1].device.device_node)
          /\ startswith_dev_tty(event[1].device.device_node))
    /\ Truthy(probe_common_ports(result[1].devfs, common_serial_ports))

\* udev lists the conventional ports that /dev and /sys hold, each with its
\* usb parent, and no other
ListingMatchesDevFs ==
    \A name \in DOMAIN result[1].devfs :
        result[1].devfs[name] = "with_sysfs"
          <=> \E i \in 1..Len(result[1].ttys) :
                /\ result[1].ttys[i].device_node = <<"/dev", name>>
                /\ Truthy(result[1].ttys[i].parent)

\* C26: a port that get_device_port returns for the target from the probe of
\* the conventional names has a usb parent with the vendor and product id of
\* the connected device
C26_probed_port_belongs_to_device ==
    (FoundByProbing /\ result[1].valid /\ ListingMatchesDevFs)
      => \E i \in 1..Len(result[1].ttys) :
            /\ result[1].ttys[i].device_node = result[1].port
            /\ Truthy(result[1].ttys[i].parent)
            /\ result[1].ttys[i].parent[1].vid = event[1].device.vid
            /\ result[1].ttys[i].parent[1].pid = event[1].device.pid

\* The 'sudo mount' calls made so far by the _mount_device call in progress
MountCalls == Len(SelectSeq(mounter[1].commands, LAMBDA c : c = "mount"))

\* The partition was in /proc/mounts when _mount_device looked
WasMounted ==
    Truthy(mounter[1].storage) /\ mounter[1].commands = <<>> /\ mounter[1].attempt = 0
    /\ mounter[1].at \in {"returned", "done"}

\* C27: for a partition not in the mount table at most 3 mount calls are made,
\* none after a call that exited 0, with one backoff after each failed call
\* that another call follows and no other; the mounted event is posted if and
\* only if a call exited 0.  For a partition in the mount table no command is
\* run and the event carries the existing mount point.
C27_mount_retries ==
    LET m == mounter[1]
        posted == storage_event_queue # <<>>
    IN  /\ MountCalls <= 3
        /\ \A i \in 1..(MountCalls - 1) : m.runs[i] = "fail"
        /\ m.at = "mount" => m.backoffs = MountCalls
        /\ (m.at = "mount" /\ MountCalls >= 1) => m.runs[MountCalls] = "fail"
        /\ (m.at \in {"returned", "done"} /\ MountCalls >= 1)
             => m.backoffs = MountCalls - 1
        /\ MountCalls = 0 => m.backoffs = 0
        /\ m.at # "done" => ~posted
        /\ (m.at = "done" /\ ~WasMounted)
             => /\ posted <=> (MountCalls >= 1 /\ m.runs[MountCalls] = "ok")
                /\ posted => storage_event_queue =
                      <<StorageEvent("usb_storage_mounted",
                                     USBStorage(m.device_node, MountPointOf(m.device_node)))>>
        /\ (m.at = "done" /\ WasMounted)
             => /\ m.commands = <<>>
                /\ storage_event_queue =
                      <<StorageEvent("usb_storage_mounted",
                                     USBStorage(m.device_node, <<"/media", "usb0">>))>>

C27_witness ==
    /\ mounter[1].at = "done"
    /\ mounter[1].runs = <<"fail", "fail", "ok">>
    /\ MountCalls = 3
    /\ mounter[1].backoffs = 2
    /\ storage_event_queue # <<>>

\* The lamp that reports the FlashResult of the handler in progress
OutcomeLamp == IF result[1].success THEN "success" ELSE "error"

\* C28: in a device_connected handler that reaches flash() (target device,
\* firmware recorded, port resolved) the lamps shown are validating and
\* updating up to the return of flash(), then success or error according to
\* the FlashResult, then idle, and no other
C28_lamp_order ==
    /\ FlashRunning
         => /\ seen.lamps = <<"validating", "updating">>
            /\ lamp = "updating"
            /\ is_valid_device(event[1].device)
            /\ Truthy(current_firmware_path)
            /\ Truthy(seen.flash_call[1].port)
    /\ (pc = "device_dwell" /\ Truthy(seen.flash_call))
         => /\ seen.lamps = <<"validating", "updating", OutcomeLamp>>
            /\ lamp = OutcomeLamp
    /\ (JustHandled("device_connected") /\ Truthy(seen.flash_call))
         => /\ seen.lamps = <<"validating", "updating", OutcomeLamp, "idle">>
            /\ lamp = "idle"

C28_witness ==
    /\ JustHandled("device_connected")
    /\ Truthy(seen.flash_call)
    /\ ~result[1].success
    /\ seen.lamps = <<"validating", "updating", "error", "idle">>

\* C29: between two handlers current_usb_storage is set if and only if
\* current_firmware_path is; a successful verification sets both, to the
\* verified volume and its firmware, and a removal with a volume recorded
\* clears both
C29_volume_iff_path ==
    /\ Polling => (Truthy(current_usb_storage) <=> Truthy(current_firmware_path))
    /\ (JustHandled("usb_storage_mounted") /\ result[1].success)
         => /\ current_usb_storage = Some(event[1].data)
            /\ current_firmware_path = result[1].firmware_path
            /\ Truthy(current_firmware_path)
    /\ (JustHandled("usb_storage_removed") /\ Truthy(seen.before[1].storage))
         => /\ current_usb_storage = None
            /\ current_firmware_path = None

C29_witness ==
    /\ JustHandled("usb_storage_removed")
    /\ Truthy(seen.before[1].storage)
    /\ Truthy(seen.before[1].path)
    /\ session = NoSession

\* The main thread is inside handle_device_connected
InDeviceConnected ==
    pc \in {"device_connected", "flash", "flash_returned", "device_dwell"}

\* C30: no step taken while a device_connected event is handled changes
\* current_firmware_path or current_usb_storage; flash() is given the recorded
\* path, and the iteration verifies no volume
C30_connect_keeps_session ==
    /\ [][InDeviceConnected
            => (/\ current_firmware_path' = current_firmware_path
                /\ current_usb_storage' = current_usb_storage)]_vars
    /\ [](FlashRunning
            => (/\ flasher.firmware_path = current_firmware_path
                /\ seen.flash_call[1].firmware_path = current_firmware_path
                /\ seen.fs = None))
    /\ [](JustHandled("device_connected") => seen.fs = None)

\* A target's connect event is dequeued while the path an earlier flash() was
\* given is still the recorded one
C30_witness ==
    /\ pc = "device_connected"
    /\ is_valid_device(event[1].device)
    /\ Truthy(current_usb_storage)
    /\ Truthy(current_firmware_path)
    /\ flasher.firmware_path = current_firmware_path

\* C31: a device-connected event is never taken off its queue for handling
\* while a storage event that was put on the storage queue before it was put
\* on the device queue is still waiting there, whatever the interleaving of
\* the two observer threads with the main thread.
C31_older_storage_event_first ==
    [][(pc = "poll_device" /\ pc' = "device_connected") => (ahead[1][1] = 0)]_vars

\* C32: handling a storage-removed event whose block device is not the device
\* of the active volume leaves current_firmware_path and current_usb_storage
\* as they are and makes no unmount_device call on the active volume.
C32_other_removal_keeps_session ==
    [][(/\ pc = "storage_removed"
        /\ pc' # "storage_removed"
        /\ Truthy(current_usb_storage)
        /\ event[1].data # current_usb_storage[1].device_node)
       => (/\ current_usb_storage' = current_usb_storage
           /\ current_firmware_path' = current_firmware_path
           /\ unmount_due' = unmount_due)]_vars

\* C33: whenever the main thread is polling its queues, no handler in
\* progress, the lamp shows idle: the last show_* call of every handler that
\* has returned is show_idle, and the disconnect branch makes none.
C33_idle_lamp_while_polling ==
    /\ Polling => lamp = "idle"
    /\ (pc = "loop" /\ seen.lamps # <<>>) => Last(seen.lamps) = "idle"

\* back at the loop after a flash: updating, then the outcome, then idle
C33_witness ==
    /\ pc = "loop"
    /\ seen.device_poll = "event"
    /\ \E i \in 1..Len(seen.lamps) : seen.lamps[i] = "updating"
    /\ lamp = "idle"

\* C34: as long as no shutdown is requested and the main thread keeps running,
\* the device events waiting in the device queue are all dequeued in the end,
\* once storage events have stopped arriving (in the model at most MaxEvents
\* notifications arrive), and the handler of a dequeued device event returns to
\* the loop; until then a storage poll that finds an event puts off the device
\* poll: a device event leaves its queue only in an iteration whose storage
\* poll found the storage queue empty.
C34_device_events_handled_eventually ==
    /\ (device_event_queue # <<>>)
          ~> (shutdown_requested \/ device_event_queue = <<>>)
    /\ InDeviceConnected ~> (pc = "loop")
    /\ (pc = "device_disconnected") ~> (pc = "loop")
    /\ [][(pc = "poll_storage" /\ pc' # pc /\ storage_event_queue # <<>>)
            => (/\ pc' \in {"storage_mounted", "storage_removed"}
                /\ device_event_queue' = device_event_queue)]_vars
    /\ [][(Len(device_event_queue') < Len(device_event_queue))
            => (pc = "poll_device" /\ seen.storage_poll = "empty")]_vars

\* a device event is being handled after a storage event was, all the
\* notifications of the run have arrived and no shutdown is requested
C34_witness ==
    /\ pc = "device_connected"
    /\ lastStorage # "none"
    /\ udev = MaxEvents
    /\ ~shutdown_requested

====
